---- MODULE Spec2Model ----
(***************************************************************************)
(* pg_probackup CATCHUP (src/src/catchup.c): do_catchup and its helpers     *)
(* as a state machine.  The foreground thread walks do_catchup statement    *)
(* by statement (pc), the transfer workers run catchup_thread_runner, and   *)
(* the WAL streamer flushes WAL into the destination concurrently.          *)
(*                                                                          *)
(* File entries (pgFile) are identified by an id indexing FileTable; the    *)
(* parrays are sequences of ids.  Relative paths are the byte strings of    *)
(* the real names (sequences of character codes), compared as strcmp does.  *)
(***************************************************************************)
EXTENDS Integers, Sequences, FiniteSets, TLC

(* ------------------------------------------------------------------ *)
(* Bounds of the model                                                  *)
(* ------------------------------------------------------------------ *)
MaxThreads == 2
MaxLsn == 2

(* ------------------------------------------------------------------ *)
(* Program constants                                                    *)
(* ------------------------------------------------------------------ *)
PtrackMinVersion == 200
NonExclusiveVersion == 90600
WalSegSizeVersion == 110000
LabelFileVersion == 90600
InvalidXLogRecPtr == 0
FirstTimeline == 1

BACKUP_MODE_FULL == "FULL"
BACKUP_MODE_DIFF_DELTA == "DELTA"
BACKUP_MODE_DIFF_PTRACK == "PTRACK"
BackupModes == {BACKUP_MODE_FULL, BACKUP_MODE_DIFF_DELTA, BACKUP_MODE_DIFF_PTRACK}

(* write_size sentinels and the abstract "some bytes were written" value *)
FILE_NOT_FOUND == "FILE_NOT_FOUND"
BYTES_INVALID == "BYTES_INVALID"
BYTES_WRITTEN == "BYTES_WRITTEN"
NotCopied == "unset"

(* well-known names, as byte strings *)
XLOG_CONTROL_FILE == <<103,108,111,98,97,108,47,112,103,95,99,111,110,116,114,111,108>>
RELMAPPER_FILENAME == <<112,103,95,102,105,108,101,110,111,100,101,46,109,97,112>>
PG_TBLSPC_DIR == <<112,103,95,116,98,108,115,112,99>>
PG_XLOG_DIR == <<112,103,95,119,97,108>>
PG_BACKUP_LABEL_FILE == <<98,97,99,107,117,112,95,108,97,98,101,108>>

(* ------------------------------------------------------------------ *)
(* The files of the modelled data directories                           *)
(* ------------------------------------------------------------------ *)
S_IFDIR == "dir"
S_IFREG == "reg"
S_IFLNK == "lnk"
NoEnt == "none"

(* id |-> rel_path and the type the entry has wherever it exists *)
FileTable ==
  <<
    [rel_path |-> <<98,97,115,101>>,                               mode |-> S_IFDIR], \* base
    [rel_path |-> <<98,97,115,101,47,49>>,                         mode |-> S_IFDIR], \* base/1
    [rel_path |-> <<98,97,115,101,47,49,47,49,48,48>>,             mode |-> S_IFREG], \* base/1/100
    [rel_path |-> <<98,97,115,101,47,49,47,50,48,48>>,             mode |-> S_IFREG], \* base/1/200
    [rel_path |-> <<103,108,111,98,97,108>>,                       mode |-> S_IFDIR], \* global
    [rel_path |-> XLOG_CONTROL_FILE,                               mode |-> S_IFREG], \* global/pg_control
    [rel_path |-> <<103,108,111,98,97,108,47>> \o RELMAPPER_FILENAME, mode |-> S_IFREG], \* global/pg_filenode.map
    [rel_path |-> PG_TBLSPC_DIR,                                   mode |-> S_IFDIR], \* pg_tblspc
    [rel_path |-> PG_TBLSPC_DIR \o <<47,49,54,51,56,52>>,          mode |-> S_IFDIR], \* pg_tblspc/16384
    [rel_path |-> PG_XLOG_DIR,                                     mode |-> S_IFDIR], \* pg_wal
    [rel_path |-> PG_XLOG_DIR \o <<47,48,48,48,49>>,               mode |-> S_IFREG], \* pg_wal/0001
    [rel_path |-> PG_BACKUP_LABEL_FILE,                            mode |-> S_IFREG], \* backup_label
    [rel_path |-> <<98,97,115,101,47,49,47,108,110,107>>,          mode |-> S_IFLNK], \* base/1/lnk
    [rel_path |-> <<80,71,95,86,69,82,83,73,79,78>>,               mode |-> S_IFREG]  \* PG_VERSION
  >>

FileIds == 1..Len(FileTable)
NullFile == 0

RelPath(f) == FileTable[f].rel_path
Mode(f) == FileTable[f].mode
S_ISDIR(f) == Mode(f) = S_IFDIR
S_ISREG(f) == Mode(f) = S_IFREG

(* ------------------------------------------------------------------ *)
(* Strings and paths                                                    *)
(* ------------------------------------------------------------------ *)
(* strcmp: sign of the first differing byte, a proper prefix sorts first *)
RECURSIVE StrCmpFrom(_, _, _)
StrCmpFrom(a, b, k) ==
  IF k > Len(a) /\ k > Len(b) THEN 0
  ELSE IF k > Len(a) THEN -1
  ELSE IF k > Len(b) THEN 1
  ELSE IF a[k] < b[k] THEN -1
  ELSE IF a[k] > b[k] THEN 1
  ELSE StrCmpFrom(a, b, k + 1)

strcmp(a, b) == StrCmpFrom(a, b, 1)

(* positions of '/' in a path *)
SlashPositions(p) == {k \in 1..Len(p) : p[k] = 47}

MaxOf(S) == CHOOSE x \in S : \A y \in S : y <= x

(* get_parent_directory: the path cut at its last separator, "" at top level *)
get_parent_directory(p) ==
  IF SlashPositions(p) = {} THEN <<>>
  ELSE SubSeq(p, 1, MaxOf(SlashPositions(p)) - 1)

(* pgFile.name: the last component of rel_path *)
FileName(f) ==
  LET p == RelPath(f) IN
    IF SlashPositions(p) = {} THEN p
    ELSE SubSeq(p, MaxOf(SlashPositions(p)) + 1, Len(p))

(* pg_tolower on one byte, and pg_strcasecmp = 0 *)
ToLower(c) == IF c >= 65 /\ c <= 90 THEN c + 32 ELSE c

pg_strcasecmp_eq(a, b) ==
  /\ Len(a) = Len(b)
  /\ \A k \in 1..Len(a) : ToLower(a[k]) = ToLower(b[k])

(* the entry whose path is the parent directory of f, NullFile at top level *)
ParentOf(f) ==
  LET pp == get_parent_directory(RelPath(f)) IN
    IF \E g \in FileIds : RelPath(g) = pp
    THEN CHOOSE g \in FileIds : RelPath(g) = pp
    ELSE NullFile

RECURSIVE Ancestors(_)
Ancestors(f) ==
  IF ParentOf(f) = NullFile THEN {} ELSE {ParentOf(f)} \cup Ancestors(ParentOf(f))

IsUnder(f, d) == d \in Ancestors(f)

(* do_catchup's test for a tablespace link: the parent is pg_tblspc *)
IsTablespaceLink(f) == strcmp(get_parent_directory(RelPath(f)), PG_TBLSPC_DIR) = 0


(* ------------------------------------------------------------------ *)
(* Comparators and parray operations                                    *)
(* ------------------------------------------------------------------ *)
pgFileCompareRelPathWithExternal(f1, f2) == strcmp(RelPath(f1), RelPath(f2))


SeqToSet(s) == {s[k] : k \in 1..Len(s)}

parray_remove(s, k) == SubSeq(s, 1, k - 1) \o SubSeq(s, k + 1, Len(s))

(* qsort under a path comparator (no ties: paths are unique); sign = 1 sorts
   with pgFileCompareRelPathWithExternal, sign = -1 with its Desc variant *)
RECURSIVE SortSetByPath(_, _)
SortSetByPath(S, sign) ==
  IF S = {} THEN <<>>
  ELSE LET m == CHOOSE x \in S :
                  \A y \in S : sign * pgFileCompareRelPathWithExternal(x, y) <= 0
       IN <<m>> \o SortSetByPath(S \ {m}, sign)

(* a path sort with the comparison reversed *)
QSortRelPathReversed(s) == SortSetByPath(SeqToSet(s), -1)

QSortRelPath(s) == SortSetByPath(SeqToSet(s), 1)

(* the destination list sorted ascending where the reaper wants it descending *)
QSortRelPathDescAscending(s) == SortSetByPath(SeqToSet(s), 1)

QSortRelPathDesc(s) == SortSetByPath(SeqToSet(s), -1)

(* bsearch(3) over s[1..Len(s)] with the ascending path comparator:
   the index found, 0 when the probe sequence misses *)
RECURSIVE BSearchFrom(_, _, _, _)
BSearchFrom(s, key, l, u) ==
  IF l >= u THEN 0
  ELSE LET idx == (l + u) \div 2
           c == strcmp(key, RelPath(s[idx + 1]))
       IN IF c < 0 THEN BSearchFrom(s, key, l, idx)
          ELSE IF c > 0 THEN BSearchFrom(s, key, idx + 1, u)
          ELSE idx + 1

parray_bsearch_index(s, key) == BSearchFrom(s, key, 0, Len(s))

parray_bsearch(s, f) == parray_bsearch_index(s, RelPath(f))

(* ------------------------------------------------------------------ *)
(* Ids of the well-known entries                                        *)
(* ------------------------------------------------------------------ *)
IdOfPath(p) == CHOOSE f \in FileIds : RelPath(f) = p

ControlFileId == IdOfPath(XLOG_CONTROL_FILE)
XlogDirId == IdOfPath(PG_XLOG_DIR)
BackupLabelId == IdOfPath(PG_BACKUP_LABEL_FILE)

(* dir_list_file(..., exclude = true, ...): the contents of the WAL directory
   and the runtime files (backup_label) are not listed; the WAL directory
   itself is *)
IsExcludedFromScan(f) == IsUnder(f, XlogDirId) \/ f = BackupLabelId


(* tablespace locations, as byte strings: "/ts" is what the source reports,
   "/tsb" and "tsb" are what --tablespace-mapping may map it to *)
SrcTablespacePath == <<47,116,115>>
AbsMappedPath == <<47,116,115,98>>
RelMappedPath == <<116,115,98>>

is_absolute_path(p) == Len(p) > 0 /\ p[1] = 47

(* get_tablespace_mapping: the mapped directory, or the argument itself *)
get_tablespace_mapping(map, dir) ==
  IF \E k \in 1..Len(map) : map[k].old_dir = dir
  THEN map[CHOOSE k \in 1..Len(map) : map[k].old_dir = dir].new_dir
  ELSE dir

(* get_tablespace_mapping hands back its own argument: no entry of the map
   names the directory *)
MappingReturnsArgument(map, dir) == ~\E k \in 1..Len(map) : map[k].old_dir = dir

(* ------------------------------------------------------------------ *)
(* State                                                                *)
(* ------------------------------------------------------------------ *)
VARIABLES
  opt,              \* command line: backup_mode, num_threads, from_replica, sync_dest_files, tablespace_mapping
  env,              \* what the two hosts answer when asked (trees, control files, server facts)
  pc,               \* position of the foreground thread in do_catchup
  errmsg,           \* the elog(ERROR) that ended the run, "" if none
  node,             \* source_node_info
  current,          \* current: tli, start_lsn, stop_lsn
  dest_redo,        \* RedoParams dest_redo of do_catchup
  dest_fs,          \* destination data directory: id |-> type, or NoEnt
  src_host_deleted, \* paths under dest_pgdata whose delete request went to the source host
  source_filelist,  \* parray of source entries
  dest_filelist,    \* parray of destination entries
  source_pg_control_file,
  i,                \* loop index of the foreground thread (1-based)
  lock,             \* pgFile.lock of the source entries
  exists_in_prev,   \* pgFile.exists_in_prev
  write_size,       \* pgFile.write_size
  wpc,              \* per worker: position in catchup_thread_runner
  wi,               \* per worker: loop index (1-based)
  completed,        \* per worker: arguments->completed
  interrupted,      \* process-wide interrupt flag set by the signal handler
  thread_interrupted,
  fio_connected,    \* per worker: the thread's remote-I/O channel is open
  stream,           \* WAL streamer thread: "off", "on", "ended", "failed"
  flushed_lsn,      \* position the streamer has flushed into the destination WAL directory
  stop_backup_result,
  sent,             \* requests issued on the source connection, in order
  claimers,         \* history: id |-> workers whose test-and-set of the entry succeeded
  copiers,          \* history: id |-> workers that invoked a copier on the entry
  touched,          \* history: destination paths this run created, wrote or deleted
  milestones,       \* history: the steps of do_catchup that have run
  late_writes       \* history: regular files written after copy_pgcontrol_file

vars == <<opt, env, pc, errmsg, node, current, dest_redo, dest_fs, src_host_deleted,
          source_filelist, dest_filelist, source_pg_control_file, i, lock,
          exists_in_prev, write_size, wpc, wi, completed, interrupted,
          thread_interrupted, fio_connected, stream, flushed_lsn, stop_backup_result, sent,
          claimers, copiers, touched, milestones, late_writes>>

Threads == 1..MaxThreads
Workers == 1..opt.num_threads

inputVars == <<opt, env>>
mainVarsFrame == <<pc, errmsg>>
fileVars == <<lock, exists_in_prev, write_size>>
workerVars == <<wpc, wi, completed, thread_interrupted, fio_connected>>
listVars == <<source_filelist, dest_filelist, source_pg_control_file>>
streamVars == <<stream, flushed_lsn>>
connVars == <<node, current, dest_redo, stop_backup_result, sent>>
fsVars == <<dest_fs, src_host_deleted, touched, milestones, late_writes>>
poolHist == <<claimers, copiers>>

(* ------------------------------------------------------------------ *)
(* Helpers over the state                                               *)
(* ------------------------------------------------------------------ *)
(* exclusive_backup, as pgdata_basic_setup derives it from the server version *)
exclusive_backup == node.server_version < NonExclusiveVersion

(* dir_is_empty(dest_pgdata): nothing exists under the destination root *)
dir_is_empty(fs) == \A f \in FileIds : fs[f] = NoEnt

(* dir_list_file / fio_list_dir on a tree: the listed entries, sorted by path *)
dir_list_file(T) == SortSetByPath({f \in T : ~IsExcludedFromScan(f)}, 1)

(* the tablespaces the source reports: one per link under pg_tblspc *)
RetrieveWalSegSize == env.wal_seg_size_retrieved

(* the PostgreSQL version catchup.c is compiled for *)
PG_VERSION_NUM == env.pg_version_num

(* the rows of the tablespace query, when it returned a result *)
SourceTablespaces ==
  IF \E f \in env.src_tree : IsTablespaceLink(f) THEN <<SrcTablespacePath>> ELSE <<>>

(* the foreground thread's elog(ERROR, msg): the process exits *)
Fatal(msg) == pc' = "error" /\ errmsg' = msg

Goto(label) == pc' = label /\ errmsg' = errmsg

(* ------------------------------------------------------------------ *)
(* catchup_collect_info                                                 *)
(* ------------------------------------------------------------------ *)
(* pg_start_backup is issued while the node information is collected *)
CollectInfoStartsBackup ==
  /\ pc = "collect_info"
  /\ IF PG_VERSION_NUM >= WalSegSizeVersion /\ ~RetrieveWalSegSize
     THEN /\ node' = [node EXCEPT !.server_version = env.server_version,
                                  !.is_superuser = env.is_superuser]
          /\ Fatal("Failed to retrieve wal_segment_size")
          /\ UNCHANGED <<current, sent>>
     ELSE /\ node' = [server_version |-> env.server_version,
                      is_superuser |-> env.is_superuser,
                      ptrack_version_num |-> env.ptrack_version_num,
                      is_ptrack_enabled |-> IF env.ptrack_version_num > 0
                                            THEN env.is_ptrack_enabled ELSE FALSE]
          /\ current' = [current EXCEPT !.tli = env.tli]
          /\ sent' = Append(sent, "pg_start_backup")
          /\ Goto("pf_empty")
  /\ UNCHANGED <<inputVars, dest_redo, stop_backup_result, fsVars, listVars, i,
                 fileVars, workerVars, interrupted, streamVars, poolHist>>

(* catchup_collect_info: pgdata_basic_setup fills the version and the role;
   in a build for PostgreSQL 11 or later a server that does not tell its WAL
   segment size ends the run there; then the ptrack state and the current
   timeline are read (from the connection, or from the source control file
   in a build older than 9.6) *)
CollectInfo ==
  /\ pc = "collect_info"
  /\ IF PG_VERSION_NUM >= WalSegSizeVersion /\ ~RetrieveWalSegSize
     THEN /\ node' = [node EXCEPT !.server_version = env.server_version,
                                  !.is_superuser = env.is_superuser]
          /\ Fatal("Failed to retrieve wal_segment_size")
          /\ UNCHANGED current
     ELSE /\ node' = [server_version |-> env.server_version,
                      is_superuser |-> env.is_superuser,
                      ptrack_version_num |-> env.ptrack_version_num,
                      is_ptrack_enabled |-> IF env.ptrack_version_num > 0
                                            THEN env.is_ptrack_enabled ELSE FALSE]
          /\ current' = [current EXCEPT !.tli = env.tli]
          /\ Goto("pf_empty")
  /\ UNCHANGED <<inputVars, dest_redo, stop_backup_result, sent, fsVars, listVars, i,
                 fileVars, workerVars, interrupted, streamVars, poolHist>>

(* ------------------------------------------------------------------ *)
(* catchup_preflight_checks, one action per check                       *)
(* ------------------------------------------------------------------ *)
preflightFrame ==
  UNCHANGED <<inputVars, connVars, fsVars, listVars, i, fileVars, workerVars,
              interrupted, streamVars, poolHist>>

(* an emptiness check that forgets the FULL branch *)
EmptinessVerdictIncrementalOnly(empty, mode) ==
  IF empty /\ mode \in {BACKUP_MODE_DIFF_PTRACK, BACKUP_MODE_DIFF_DELTA}
  THEN "is empty, but incremental catchup mode requested." ELSE ""

(* destination emptiness against the mode *)
EmptinessVerdict(empty, mode) ==
  IF empty
  THEN IF mode \in {BACKUP_MODE_DIFF_PTRACK, BACKUP_MODE_DIFF_DELTA}
       THEN "is empty, but incremental catchup mode requested." ELSE ""
  ELSE IF mode = BACKUP_MODE_FULL
       THEN "Can't perform full catchup into non-empty directory" ELSE ""

PreflightEmptiness ==
  /\ pc = "pf_empty"
  /\ LET v == EmptinessVerdict(dir_is_empty(dest_fs), opt.backup_mode)
     IN IF v # "" THEN Fatal(v) ELSE Goto("pf_postmaster")
  /\ preflightFrame

(* postmaster must not run in the destination *)
PostmasterVerdict(mode, pid) ==
  IF mode = BACKUP_MODE_FULL THEN ""
  ELSE IF pid = 1 THEN "Pid file is mangled, cannot determine whether postmaster is running or not"
  ELSE IF pid > 1 THEN "Postmaster is running in destination directory"
  ELSE ""

PreflightPostmaster ==
  /\ pc = "pf_postmaster"
  /\ LET v == PostmasterVerdict(opt.backup_mode, env.postmaster_pid)
     IN IF v # "" THEN Fatal(v) ELSE Goto("pf_label")
  /\ preflightFrame

(* no backup_label in the destination *)
PreflightBackupLabel ==
  /\ pc = "pf_label"
  /\ IF opt.backup_mode # BACKUP_MODE_FULL /\ dest_fs[BackupLabelId] # NoEnt
     THEN Fatal("Destination directory contains backup_label file")
     ELSE Goto("pf_dbstate")
  /\ preflightFrame

(* get_system_dbstate: the state in the destination control file, DB_STARTUP
   (zero) when the file cannot be read *)
get_system_dbstate(fs) ==
  IF fs[ControlFileId] = NoEnt THEN "DB_STARTUP" ELSE env.dest_dbstate

PreflightDbState ==
  /\ pc = "pf_dbstate"
  /\ IF /\ opt.backup_mode # BACKUP_MODE_FULL
        /\ get_system_dbstate(dest_fs) \notin {"DB_SHUTDOWNED", "DB_SHUTDOWNED_IN_RECOVERY"}
     THEN Fatal("Postmaster in destination directory must be stopped cleanly")
     ELSE Goto("pf_sysid")
  /\ preflightFrame

(* connected instance, source PGDATA and destination PGDATA are the same cluster *)
(* an identity check that leaves the destination out *)
SystemIdVerdictSourceOnly(mode, source_conn_id, source_id, dest_id) ==
  IF source_conn_id # source_id
  THEN "Database identifiers mismatch: connected DB vs source PGDATA"
  ELSE ""

SystemIdVerdict(mode, source_conn_id, source_id, dest_id) ==
  IF source_conn_id # source_id
  THEN "Database identifiers mismatch: connected DB vs source PGDATA"
  ELSE IF mode # BACKUP_MODE_FULL /\ source_conn_id # dest_id
  THEN "Database identifiers mismatch: connected DB vs destination PGDATA"
  ELSE ""

PreflightSystemId ==
  /\ pc = "pf_sysid"
  /\ LET v == SystemIdVerdict(opt.backup_mode, env.source_conn_id, env.source_id, env.dest_id)
     IN IF v # "" THEN Fatal(v) ELSE Goto("pf_ptrack")
  /\ preflightFrame

(* PTRACK prerequisites *)
(* a ptrack check that does not ask whether ptrack is enabled *)
PtrackVerdictVersionOnly(mode, ptrack_version_num, is_ptrack_enabled) ==
  IF mode # BACKUP_MODE_DIFF_PTRACK THEN ""
  ELSE IF ptrack_version_num = 0 THEN "This PostgreSQL instance does not support ptrack"
  ELSE IF ptrack_version_num < PtrackMinVersion THEN "ptrack extension is too old."
  ELSE ""

PtrackVerdict(mode, ptrack_version_num, is_ptrack_enabled) ==
  IF mode # BACKUP_MODE_DIFF_PTRACK THEN ""
  ELSE IF ptrack_version_num = 0 THEN "This PostgreSQL instance does not support ptrack"
  ELSE IF ptrack_version_num < PtrackMinVersion THEN "ptrack extension is too old."
  ELSE IF ~is_ptrack_enabled THEN "Ptrack is disabled"
  ELSE ""

PreflightPtrack ==
  /\ pc = "pf_ptrack"
  /\ LET v == PtrackVerdict(opt.backup_mode, node.ptrack_version_num, node.is_ptrack_enabled)
     IN IF v # "" THEN Fatal(v) ELSE Goto("pf_replica")
  /\ preflightFrame

PreflightReplica ==
  /\ pc = "pf_replica"
  /\ IF opt.from_replica /\ exclusive_backup
     THEN Fatal("Catchup from standby is only available for PostgreSQL >= 9.6")
     ELSE Goto("pf_tblspc")
  /\ preflightFrame

(* a tablespace check for which an unmapped tablespace is never fatal *)
RECURSIVE TablespacesVerdictWarnOnly(_, _, _, _, _)
TablespacesVerdictWarnOnly(tbs, map, mode, remote, target_empty) ==
  IF tbs = <<>> THEN ""
  ELSE LET tablespace_path == Head(tbs)
           linked_path == get_tablespace_mapping(map, tablespace_path)
       IN IF ~is_absolute_path(linked_path)
          THEN "Tablespace directory path must be an absolute path: \"%s\""
          ELSE IF mode = BACKUP_MODE_FULL /\ ~target_empty
          THEN "Target mapped tablespace directory is not empty in FULL catchup"
          ELSE TablespacesVerdictWarnOnly(Tail(tbs), map, mode, remote, target_empty)

(* catchup_check_tablespaces_existance_in_tbsmapping: the first fatal finding
   over the reported tablespaces, "" when the loop completes *)
RECURSIVE TablespacesVerdict(_, _, _, _, _)
TablespacesVerdict(tbs, map, mode, remote, target_empty) ==
  IF tbs = <<>> THEN ""
  ELSE LET tablespace_path == Head(tbs)
           linked_path == get_tablespace_mapping(map, tablespace_path)
       IN IF strcmp(tablespace_path, linked_path) = 0 /\ ~remote
          THEN "Local catchup executed, but source database contains tablespace, that is not listed in the map"
          ELSE IF ~is_absolute_path(linked_path)
          THEN "Tablespace directory path must be an absolute path: \"%s\""
          ELSE IF mode = BACKUP_MODE_FULL /\ ~target_empty
          THEN "Target mapped tablespace directory is not empty in FULL catchup"
          ELSE TablespacesVerdict(Tail(tbs), map, mode, remote, target_empty)

PreflightTablespaces ==
  /\ pc = "pf_tblspc"
  /\ LET v == TablespacesVerdict(SourceTablespaces, opt.tablespace_mapping,
                                 opt.backup_mode, env.remote, env.tablespace_dir_empty)
     IN IF ~env.tablespaces_res \* pgut_execute returned NULL
        THEN Fatal("Failed to get list of tablespaces")
        ELSE IF v # "" THEN Fatal(v) ELSE Goto("pf_timeline")
  /\ preflightFrame

(* catchup_get_tli_history returns NULL when the history cannot be fetched; a
   parsed history is never empty (it ends with the current timeline) *)
NullHistory == <<>>

(* satisfy_timeline: the redo point lies on one of the history's timelines *)
satisfy_timeline(timelines, tli, lsn) ==
  \E k \in 1..Len(timelines) :
    /\ timelines[k].tli = tli
    /\ (timelines[k].end = InvalidXLogRecPtr \/ lsn <= timelines[k].end)

(* a timeline check that fetches the history and does not look into it *)
TimelineVerdictFetchOnly(mode, source_tli, history, redo_tli, redo_lsn) ==
  IF mode = BACKUP_MODE_FULL THEN ""
  ELSE IF source_tli # FirstTimeline
  THEN IF history = NullHistory THEN "Cannot get source timeline history" ELSE ""
  ELSE IF redo_tli # 1 THEN "Source is behind destination in timeline history"
  ELSE ""

(* a timeline check without the special case of a source on timeline 1 *)
TimelineVerdictNoSpecialCase(mode, source_tli, history, redo_tli, redo_lsn) ==
  IF mode = BACKUP_MODE_FULL THEN ""
  ELSE IF source_tli # FirstTimeline
  THEN IF history = NullHistory THEN "Cannot get source timeline history"
       ELSE IF ~satisfy_timeline(history, redo_tli, redo_lsn)
       THEN "Destination is not in source timeline history"
       ELSE ""
  ELSE ""

TimelineVerdict(mode, source_tli, history, redo_tli, redo_lsn) ==
  IF mode = BACKUP_MODE_FULL THEN ""
  ELSE IF source_tli # FirstTimeline
  THEN IF history = NullHistory THEN "Cannot get source timeline history"
       ELSE IF ~satisfy_timeline(history, redo_tli, redo_lsn)
       THEN "Destination is not in source timeline history"
       ELSE ""
  ELSE IF redo_tli # 1 THEN "Source is behind destination in timeline history"
  ELSE ""

(* catchup_get_tli_history: NULL when the replication connection or the
   command fails, an error when the reply is not one row of two fields, the
   parsed history otherwise *)
catchup_get_tli_history ==
  IF env.tli_history = NullHistory
  THEN [error |-> "", result |-> NullHistory]
  ELSE IF ~env.tli_reply_wellformed
  THEN [error |-> "Unexpected response to TIMELINE_HISTORY command",
        result |-> NullHistory]
  ELSE [error |-> "", result |-> env.tli_history]

PreflightTimeline ==
  /\ pc = "pf_timeline"
  /\ LET fetched == opt.backup_mode # BACKUP_MODE_FULL /\ current.tli # FirstTimeline
         v == TimelineVerdict(opt.backup_mode, current.tli,
                              catchup_get_tli_history.result,
                              env.dest_redo_tli, env.dest_redo_lsn)
     IN IF fetched /\ catchup_get_tli_history.error # ""
        THEN Fatal(catchup_get_tli_history.error)
        ELSE IF v # "" THEN Fatal(v) ELSE Goto("start_backup")
  /\ preflightFrame

Preflight ==
  \/ PreflightEmptiness
  \/ PreflightPostmaster
  \/ PreflightBackupLabel
  \/ PreflightDbState
  \/ PreflightSystemId
  \/ PreflightPtrack
  \/ PreflightReplica
  \/ PreflightTablespaces
  \/ PreflightTimeline

(* ------------------------------------------------------------------ *)
(* do_catchup: start of the backup, destination scan, LSN checks        *)
(* ------------------------------------------------------------------ *)
StartBackup ==
  /\ pc = "start_backup"
  /\ sent' = Append(sent, "pg_start_backup")
  /\ current' = [current EXCEPT !.start_lsn = env.start_lsn]
  /\ Goto("list_dest")
  /\ UNCHANGED <<inputVars, node, dest_redo, stop_backup_result, fsVars, listVars, i,
                 fileVars, workerVars, interrupted, streamVars, poolHist>>

(* get_redo: the redo point of the destination control file *)
get_redo(fs) ==
  IF fs[ControlFileId] = NoEnt
  THEN [tli |-> 0, lsn |-> InvalidXLogRecPtr]
  ELSE [tli |-> env.dest_redo_tli, lsn |-> env.dest_redo_lsn]

ExistingIn(fs) == {f \in FileIds : fs[f] # NoEnt}

ListDestination ==
  /\ pc = "list_dest"
  /\ IF opt.backup_mode # BACKUP_MODE_FULL
     THEN /\ dest_filelist' = dir_list_file(ExistingIn(dest_fs))
          /\ dest_redo' = get_redo(dest_fs)
     ELSE UNCHANGED <<dest_filelist, dest_redo>>
  /\ Goto("ptrack_lsn")
  /\ UNCHANGED <<inputVars, node, current, stop_backup_result, sent, fsVars,
                 source_filelist, source_pg_control_file, i,
                 fileVars, workerVars, interrupted, streamVars, poolHist>>

CheckPtrackLsn ==
  /\ pc = "ptrack_lsn"
  /\ IF /\ opt.backup_mode = BACKUP_MODE_DIFF_PTRACK
        /\ (env.ptrack_lsn > dest_redo.lsn \/ env.ptrack_lsn = InvalidXLogRecPtr)
     THEN Fatal("LSN from ptrack_control in source is greater than checkpoint LSN in destination")
     ELSE Goto("check_lsn")
  /\ preflightFrame

(* the start LSN is not compared with the destination's redo LSN *)
CheckStartLsnSkipped ==
  /\ pc = "check_lsn"
  /\ Goto("start_stream")
  /\ preflightFrame

CheckStartLsn ==
  /\ pc = "check_lsn"
  /\ IF opt.backup_mode # BACKUP_MODE_FULL /\ dest_redo.lsn > current.start_lsn
     THEN Fatal("Current START LSN is lower than SYNC LSN")
     ELSE Goto("start_stream")
  /\ preflightFrame

(* fio_mkdir(path, mode, FIO_LOCAL_HOST): mkdir in the destination; fails when
   the parent is missing or the path exists (the caller may ignore it) *)
MkdirPossible(fs, f) ==
  /\ fs[f] = NoEnt
  /\ ParentOf(f) = NullFile \/ fs[ParentOf(f)] \in {S_IFDIR, S_IFLNK}

fio_mkdir(fs, f) == IF MkdirPossible(fs, f) THEN [fs EXCEPT ![f] = S_IFDIR] ELSE fs

Touch(fs1, fs2, f) == IF fs1 # fs2 THEN touched \cup {f} ELSE touched

(* history: a regular file written once copy_pgcontrol_file has run *)
LateWrite(f) ==
  IF "copy_pgcontrol_file" \in milestones THEN late_writes \cup {f} ELSE late_writes

StartWalStreaming ==
  /\ pc = "start_stream"
  /\ dest_fs' = fio_mkdir(dest_fs, XlogDirId)
  /\ touched' = Touch(dest_fs, dest_fs', XlogDirId)
  /\ stream' = "on"
  /\ flushed_lsn' = current.start_lsn
  /\ Goto("list_source")
  /\ UNCHANGED <<inputVars, connVars, src_host_deleted, milestones, late_writes, listVars, i,
                 fileVars, workerVars, interrupted, poolHist>>

(* ------------------------------------------------------------------ *)
(* do_catchup: source scan and directory creation                       *)
(* ------------------------------------------------------------------ *)
ListSource ==
  /\ pc = "list_source"
  /\ source_filelist' = QSortRelPath(dir_list_file(env.src_tree))
  /\ i' = 1
  /\ Goto("mkdirs")
  /\ UNCHANGED <<inputVars, connVars, fsVars, dest_filelist, source_pg_control_file,
                 fileVars, workerVars, interrupted, streamVars, poolHist>>

(* one iteration of the "Make directories before catchup" loop.  For a
   tablespace the map does not name, linked_path points into symlink_content,
   a buffer of the block that has ended before linked_path is used: the path
   read at fio_mkdir and fio_symlink is either still the link's content or
   whatever took the buffer's place, and to_path is what takes it when the
   two share storage.  Then the directory is made at the link's own place and
   the link onto itself cannot be made. *)
CreateDirectory ==
  /\ pc = "mkdirs"
  /\ i <= Len(source_filelist)
  /\ LET file == source_filelist[i] IN
       IF ~S_ISDIR(file)
       THEN /\ Goto("mkdirs") /\ i' = i + 1 /\ UNCHANGED <<dest_fs, touched>>
       ELSE IF ~IsTablespaceLink(file)
       THEN /\ dest_fs' = fio_mkdir(dest_fs, file)
            /\ touched' = Touch(dest_fs, dest_fs', file)
            /\ Goto("mkdirs") /\ i' = i + 1
       ELSE LET linked_path == get_tablespace_mapping(opt.tablespace_mapping, SrcTablespacePath)
            IN IF ~is_absolute_path(linked_path)
               THEN /\ Fatal("Tablespace directory path must be an absolute path: %s")
                    /\ UNCHANGED <<dest_fs, touched, i>>
               ELSE \/ /\ Fatal("Could not create tablespace directory")
                       /\ UNCHANGED <<dest_fs, touched, i>>
                    \/ /\ Fatal("Could not create symbolic link")
                       /\ UNCHANGED <<dest_fs, touched, i>>
                    \/ /\ MappingReturnsArgument(opt.tablespace_mapping, SrcTablespacePath)
                       /\ dest_fs' = fio_mkdir(dest_fs, file)
                       /\ touched' = Touch(dest_fs, dest_fs', file)
                       /\ Fatal("Could not create symbolic link")
                       /\ UNCHANGED i
                    \/ /\ ParentOf(file) = NullFile \/ dest_fs[ParentOf(file)] \in {S_IFDIR, S_IFLNK}
                       /\ dest_fs' = [dest_fs EXCEPT ![file] = S_IFLNK]
                       /\ touched' = touched \cup {file}
                       /\ Goto("mkdirs") /\ i' = i + 1
  /\ UNCHANGED <<inputVars, connVars, src_host_deleted, milestones, late_writes, listVars,
                 fileVars, workerVars, interrupted, streamVars, poolHist>>

CreateDirectoriesDone ==
  /\ pc = "mkdirs"
  /\ i > Len(source_filelist)
  /\ Goto("find_control")
  /\ UNCHANGED <<inputVars, connVars, fsVars, listVars, i,
                 fileVars, workerVars, interrupted, streamVars, poolHist>>

(* pg_control is found but left in the source list *)
ExtractControlFileKeepsEntry ==
  /\ pc = "find_control"
  /\ LET control_file_elem_index == parray_bsearch_index(source_filelist, XLOG_CONTROL_FILE)
     IN IF control_file_elem_index = 0
        THEN /\ Fatal("pg_control not found in source")
             /\ UNCHANGED <<source_filelist, source_pg_control_file>>
        ELSE /\ source_pg_control_file' = source_filelist[control_file_elem_index]
             /\ UNCHANGED source_filelist
             /\ Goto("reap_sort")
  /\ UNCHANGED <<inputVars, connVars, fsVars, dest_filelist, i,
                 fileVars, workerVars, interrupted, streamVars, poolHist>>

(* find pg_control in the sorted source list and take it out *)
ExtractControlFile ==
  /\ pc = "find_control"
  /\ LET control_file_elem_index == parray_bsearch_index(source_filelist, XLOG_CONTROL_FILE)
     IN IF control_file_elem_index = 0
        THEN /\ Fatal("pg_control not found in source")
             /\ UNCHANGED <<source_filelist, source_pg_control_file>>
        ELSE /\ source_pg_control_file' = source_filelist[control_file_elem_index]
             /\ source_filelist' = parray_remove(source_filelist, control_file_elem_index)
             /\ Goto("reap_sort")
  /\ UNCHANGED <<inputVars, connVars, fsVars, dest_filelist, i,
                 fileVars, workerVars, interrupted, streamVars, poolHist>>

(* ------------------------------------------------------------------ *)
(* do_catchup: removal of redundant destination files                   *)
(* ------------------------------------------------------------------ *)
(* the pool's threads are created before the reaper runs *)
ReaperSortStartsThreads ==
  /\ pc = "reap_sort"
  /\ IF opt.backup_mode # BACKUP_MODE_FULL
     THEN /\ dest_filelist' = QSortRelPathDesc(dest_filelist)
          /\ i' = 1
          /\ Goto("reap")
     ELSE /\ UNCHANGED <<dest_filelist, i>>
          /\ Goto("prepare")
  /\ thread_interrupted' = FALSE
  /\ wpc' = [w \in Threads |-> IF w \in Workers THEN "loop" ELSE "none"]
  /\ wi' = [w \in Threads |-> 1]
  /\ completed' = [w \in Threads |-> FALSE]
  /\ UNCHANGED fio_connected
  /\ UNCHANGED <<inputVars, connVars, fsVars, source_filelist, source_pg_control_file,
                 fileVars, interrupted, streamVars, poolHist>>

ReaperSort ==
  /\ pc = "reap_sort"
  /\ IF opt.backup_mode # BACKUP_MODE_FULL
     THEN /\ dest_filelist' = QSortRelPathDesc(dest_filelist)
          /\ i' = 1
          /\ Goto("reap")
     ELSE /\ UNCHANGED <<dest_filelist, i>>
          /\ Goto("prepare")
  /\ UNCHANGED <<inputVars, connVars, fsVars, source_filelist, source_pg_control_file,
                 fileVars, workerVars, interrupted, streamVars, poolHist>>

(* fio_is_remote(location): FIO_LOCAL_HOST is this host; FIO_DB_HOST is the
   source host, remote when the catchup runs over ssh *)
FIO_LOCAL_HOST == "FIO_LOCAL_HOST"
FIO_DB_HOST == "FIO_DB_HOST"

fio_is_remote(location) == location = FIO_DB_HOST /\ env.remote

(* the location do_catchup hands to fio_delete for a destination path *)
ReaperDeleteLocation == FIO_DB_HOST

HasChildIn(fs, d) == \E g \in FileIds : ParentOf(g) = d /\ fs[g] # NoEnt

(* is the destination entry redundant? *)
IsRedundant(srclist, file) ==
  IF pg_strcasecmp_eq(FileName(file), RELMAPPER_FILENAME) THEN TRUE
  ELSE parray_bsearch(srclist, file) = 0

(* one iteration of the reaper loop *)
ReaperStep ==
  /\ pc = "reap"
  /\ i <= Len(dest_filelist)
  /\ LET file == dest_filelist[i]
         redundant == IsRedundant(source_filelist, file)
     IN IF ~redundant
        THEN /\ i' = i + 1 /\ Goto("reap")
             /\ UNCHANGED <<dest_filelist, dest_fs, src_host_deleted, touched>>
        ELSE IF fio_is_remote(ReaperDeleteLocation)
        THEN \* the delete request goes to the source host; the local file stays
             /\ src_host_deleted' = src_host_deleted \cup {file}
             /\ dest_filelist' = parray_remove(dest_filelist, i)
             /\ i' = i /\ Goto("reap")
             /\ UNCHANGED <<dest_fs, touched>>
        ELSE IF dest_fs[file] = S_IFDIR /\ HasChildIn(dest_fs, file)
        THEN \* pgFileDelete: rmdir of a non-empty directory
             /\ Fatal("Cannot remove directory")
             /\ UNCHANGED <<dest_filelist, dest_fs, src_host_deleted, touched, i>>
        ELSE /\ dest_fs' = [dest_fs EXCEPT ![file] = NoEnt]
             /\ touched' = touched \cup {file}
             /\ dest_filelist' = parray_remove(dest_filelist, i)
             /\ i' = i /\ Goto("reap")
             /\ UNCHANGED src_host_deleted
  /\ UNCHANGED <<inputVars, connVars, milestones, late_writes, source_filelist,
                 source_pg_control_file, fileVars, workerVars, interrupted,
                 streamVars, poolHist>>

ReaperDone ==
  /\ pc = "reap"
  /\ i > Len(dest_filelist)
  /\ Goto("prepare")
  /\ UNCHANGED <<inputVars, connVars, fsVars, listVars, i,
                 fileVars, workerVars, interrupted, streamVars, poolHist>>

(* ------------------------------------------------------------------ *)
(* do_catchup: preparation of the lists for the transfer                *)
(* ------------------------------------------------------------------ *)
(* every arrangement qsort may return under pgFileCompareSizeDesc: sizes
   descending, entries of equal size in any order *)
RECURSIVE SizeDescOrders(_, _)
SizeDescOrders(S, size) ==
  IF S = {} THEN {<<>>}
  ELSE UNION { { <<m>> \o t : t \in SizeDescOrders(S \ {m}, size) } :
               m \in {x \in S : \A y \in S : size[x] >= size[y]} }

(* the source list sorted by size, ascending *)
QSortSizeAsc(s) ==
  { [k \in 1..Len(t) |-> t[Len(t) + 1 - k]] : t \in SizeDescOrders(SeqToSet(s), env.src_size) }

QSortSizeDesc(s) == SizeDescOrders(SeqToSet(s), env.src_size)

(* every flag of the list is set where it should be cleared *)
pfilearray_set_locks(s) == [f \in FileIds |-> IF f \in SeqToSet(s) THEN TRUE ELSE lock[f]]

(* pfilearray_clear_locks *)
pfilearray_clear_locks(s) == [f \in FileIds |-> IF f \in SeqToSet(s) THEN FALSE ELSE lock[f]]

(* the control file is copied along with the preparation of the pool's lists *)
PrepareTransferCopiesControl ==
  /\ pc = "prepare"
  /\ lock' = pfilearray_clear_locks(source_filelist)
  /\ source_filelist' \in QSortSizeDesc(source_filelist)
  /\ dest_filelist' = IF opt.backup_mode # BACKUP_MODE_FULL
                      THEN QSortRelPath(dest_filelist) ELSE dest_filelist
  /\ dest_fs' = [dest_fs EXCEPT ![source_pg_control_file] = S_IFREG]
  /\ touched' = touched \cup {source_pg_control_file}
  /\ milestones' = milestones \cup {"copy_pgcontrol_file"}
  /\ Goto("run_threads")
  /\ UNCHANGED <<inputVars, connVars, src_host_deleted, late_writes,
                 source_pg_control_file, i, exists_in_prev, write_size,
                 workerVars, interrupted, streamVars, poolHist>>

PrepareTransfer ==
  /\ pc = "prepare"
  /\ lock' = pfilearray_clear_locks(source_filelist)
  /\ source_filelist' \in QSortSizeDesc(source_filelist)
  /\ dest_filelist' = IF opt.backup_mode # BACKUP_MODE_FULL
                      THEN QSortRelPath(dest_filelist) ELSE dest_filelist
  /\ Goto("run_threads")
  /\ UNCHANGED <<inputVars, connVars, fsVars, source_pg_control_file, i,
                 exists_in_prev, write_size, workerVars, interrupted, streamVars, poolHist>>

(* ------------------------------------------------------------------ *)
(* catchup_multithreaded_copy                                           *)
(* ------------------------------------------------------------------ *)
RunThreads ==
  /\ pc = "run_threads"
  /\ thread_interrupted' = FALSE
  /\ wpc' = [w \in Threads |-> IF w \in Workers THEN "loop" ELSE "none"]
  /\ wi' = [w \in Threads |-> 1]
  /\ completed' = [w \in Threads |-> FALSE]
  /\ UNCHANGED fio_connected
  /\ milestones' = milestones \cup {"pool_started"}
  /\ Goto("join")
  /\ UNCHANGED <<inputVars, connVars, dest_fs, src_host_deleted, touched, late_writes,
                 listVars, i, fileVars, interrupted, streamVars, poolHist>>

WorkerFinished(w) == wpc[w] \in {"exited", "failed"}

(* pthread_join of every worker; the result is the conjunction of completed *)
all_threads_successful == \A w \in Workers : completed[w]

(* the foreground thread stops waiting as soon as one worker has failed *)
JoinThreadsAtFirstFailure ==
  /\ pc = "join"
  /\ \/ \A w \in Workers : WorkerFinished(w)
     \/ \E w \in Workers : wpc[w] = "failed"
  /\ milestones' = milestones \cup {"pool_joined"}
  /\ Goto("copy_control")
  /\ UNCHANGED <<inputVars, connVars, dest_fs, src_host_deleted, touched, late_writes,
                 listVars, i, fileVars, workerVars, interrupted, streamVars, poolHist>>

JoinThreads ==
  /\ pc = "join"
  /\ \A w \in Workers : WorkerFinished(w)
  /\ milestones' = milestones \cup {"pool_joined"}
  /\ Goto("copy_control")
  /\ UNCHANGED <<inputVars, connVars, dest_fs, src_host_deleted, touched, late_writes,
                 listVars, i, fileVars, workerVars, interrupted, streamVars, poolHist>>

(* ------------------------------------------------------------------ *)
(* catchup_thread_runner                                                *)
(* ------------------------------------------------------------------ *)
(* a test-and-set that does not test: every caller acquires the flag *)
TestSetAlwaysAcquires(flag) == [acquired |-> TRUE, flag |-> TRUE]

(* pg_atomic_test_set_flag: TRUE iff the flag was clear; it is set afterwards *)
pg_atomic_test_set_flag(flag) == [acquired |-> ~flag, flag |-> TRUE]

(* the loop from index k on, up to the first entry whose flag this worker
   acquires: directories and entries whose test-and-set fails are passed over
   (a flag once set stays set, so a failed test-and-set has no effect and
   nothing another thread does in between changes its result).  The index of
   the acquired entry, Len + 1 when the loop runs off the list. *)
RECURSIVE NextClaim(_, _, _)
NextClaim(s, flags, k) ==
  IF k > Len(s) THEN k
  ELSE IF S_ISDIR(s[k]) THEN NextClaim(s, flags, k + 1)
  ELSE IF pg_atomic_test_set_flag(flags[s[k]]).acquired THEN k
  ELSE NextClaim(s, flags, k + 1)

(* the calling thread's remote-I/O channel: a request to a remote location
   opens it if it is not open yet; fio_disconnect closes it *)
fio_request(chan, w, location) ==
  [chan EXCEPT ![w] = @ \/ fio_is_remote(location)]
fio_disconnect(chan, w) == [chan EXCEPT ![w] = FALSE]

(* elog(ERROR) in a worker thread: the thread flags the failure and ends
   without reaching the end of catchup_thread_runner *)
WorkerAbort(w) ==
  /\ thread_interrupted' = TRUE
  /\ wpc' = [wpc EXCEPT ![w] = "failed"]

(* the worker advances to the next entry whose flag it acquires; past the
   end of the list it calls fio_disconnect, sets completed and returns *)
WorkerNext(w) ==
  /\ pc \notin {"error", "done"}
  /\ wpc[w] = "loop"
  /\ LET k == NextClaim(source_filelist, lock, wi[w]) IN
       /\ wi' = [wi EXCEPT ![w] = k]
       /\ fio_connected' = IF k > Len(source_filelist)
                           THEN fio_disconnect(fio_connected, w) ELSE fio_connected
       /\ IF k > Len(source_filelist)
          THEN /\ wpc' = [wpc EXCEPT ![w] = "exited"]
               /\ completed' = [completed EXCEPT ![w] = TRUE]
               /\ UNCHANGED <<lock, claimers>>
          ELSE /\ lock' = [lock EXCEPT ![source_filelist[k]] =
                             pg_atomic_test_set_flag(lock[source_filelist[k]]).flag]
               /\ claimers' = [claimers EXCEPT ![source_filelist[k]] = @ \cup {w}]
               /\ wpc' = [wpc EXCEPT ![w] = "acquired"]
               /\ UNCHANGED completed
  /\ UNCHANGED <<inputVars, mainVarsFrame, connVars, fsVars, listVars, i, exists_in_prev,
                 write_size, thread_interrupted, interrupted, streamVars, copiers>>

(* the interrupt check is left out *)
WorkerPollSkipped(w) ==
  /\ pc \notin {"error", "done"}
  /\ wpc[w] = "acquired"
  /\ wpc' = [wpc EXCEPT ![w] = "claimed"]
  /\ UNCHANGED <<inputVars, mainVarsFrame, connVars, fsVars, listVars, i, fileVars, wi,
                 completed, thread_interrupted, fio_connected, interrupted, streamVars,
                 poolHist>>

(* "check for interrupt": the flags are read after the entry's flag has been
   acquired, in a step of its own; a set flag ends the worker with
   "Interrupted during catchup" and the entry stays acquired and uncopied *)
WorkerPoll(w) ==
  /\ pc \notin {"error", "done"}
  /\ wpc[w] = "acquired"
  /\ IF interrupted \/ thread_interrupted
     THEN WorkerAbort(w)
     ELSE /\ wpc' = [wpc EXCEPT ![w] = "claimed"]
          /\ UNCHANGED thread_interrupted
  /\ UNCHANGED <<inputVars, mainVarsFrame, connVars, fsVars, listVars, i, fileVars, wi,
                 completed, fio_connected, interrupted, streamVars, poolHist>>

(* pgFile.is_datafile, as the scanner sets it: a regular file with an
   all-digit name below base, global or pg_tblspc; is_cfs is never set in
   the modelled clusters *)
IsDigits(name) == Len(name) > 0 /\ \A k \in 1..Len(name) : name[k] >= 48 /\ name[k] <= 57
is_datafile(f) ==
  /\ S_ISREG(f)
  /\ IsDigits(FileName(f))
  /\ \E d \in Ancestors(f) : RelPath(d) \in {<<98,97,115,101>>, <<103,108,111,98,97,108>>,
                                              PG_TBLSPC_DIR}
is_cfs(f) == FALSE

(* catchup_data_file: nothing is written for a file that is unchanged
   against the destination's copy (same size, no page newer than the sync
   LSN); a vanished source file gives FILE_NOT_FOUND *)
catchup_data_file(file, mode, dest_file) ==
  IF file \in env.vanished THEN FILE_NOT_FOUND
  ELSE IF mode # BACKUP_MODE_FULL /\ dest_file # NullFile /\ file \in env.unchanged
  THEN BYTES_INVALID
  ELSE BYTES_WRITTEN

(* backup_non_data_file: the whole file is copied; a vanished source file
   gives FILE_NOT_FOUND *)
backup_non_data_file(file, mode, dest_file) ==
  IF file \in env.vanished THEN FILE_NOT_FOUND ELSE BYTES_WRITTEN

(* "Do actual work": what the copier the entry is dispatched to leaves in
   write_size *)
CopierOutcome(file, mode, dest_file) ==
  IF is_datafile(file) /\ ~is_cfs(file)
  THEN catchup_data_file(file, mode, dest_file)
  ELSE backup_non_data_file(file, mode, dest_file)

(* the destination list is never searched *)
LookupDestFileSkipped(list, file, mode) == 0

(* "Check that file exist in dest pgdata": the index of the entry in the
   destination list, 0 when there is none or the mode is FULL *)
LookupDestFile(list, file, mode) ==
  IF mode # BACKUP_MODE_FULL THEN parray_bsearch(list, file) ELSE 0

(* the rest of the iteration for an acquired entry, after the interrupt check:
   lookup in the destination list, copier, result *)
WorkerCopy(w) ==
  /\ pc \notin {"error", "done"}
  /\ wpc[w] = "claimed"
  /\ LET file == source_filelist[wi[w]]
         found == LookupDestFile(dest_filelist, file, opt.backup_mode)
         dest_file == IF found = 0 THEN NullFile ELSE dest_filelist[found]
         out == CopierOutcome(file, opt.backup_mode, dest_file)
     IN /\ exists_in_prev' = [exists_in_prev EXCEPT ![file] = @ \/ dest_file # NullFile]
        /\ copiers' = [copiers EXCEPT ![file] = @ \cup {w}]
        /\ fio_connected' = fio_request(fio_connected, w, FIO_DB_HOST)
        /\ IF file \in env.unreadable
           THEN \* the copier raises an error
                /\ WorkerAbort(w)
                /\ UNCHANGED <<wi, write_size, dest_fs, touched, late_writes>>
           ELSE /\ write_size' = [write_size EXCEPT ![file] = out]
                /\ IF out = BYTES_WRITTEN
                   THEN /\ dest_fs' = [dest_fs EXCEPT ![file] = S_IFREG]
                        /\ touched' = touched \cup {file}
                        /\ late_writes' = LateWrite(file)
                   ELSE UNCHANGED <<dest_fs, touched, late_writes>>
                /\ wi' = [wi EXCEPT ![w] = @ + 1]
                /\ wpc' = [wpc EXCEPT ![w] = "loop"]
                /\ UNCHANGED thread_interrupted
  /\ UNCHANGED <<inputVars, mainVarsFrame, connVars, src_host_deleted, milestones,
                 listVars, i, lock, completed, interrupted, streamVars, claimers>>

Worker == \E w \in Workers : WorkerNext(w) \/ WorkerPoll(w) \/ WorkerCopy(w)

(* the signal handler sets the process-wide flag; the signal arrives while
   the pool is running (some worker has not ended yet).  The workers read
   the flag at their check, the foreground thread in its waiting loops
   (pg_stop_backup_consume, wait_wal_and_calculate_stop_lsn). *)
Interrupt ==
  /\ pc = "join"
  /\ \E w \in Workers : wpc[w] \in {"loop", "acquired", "claimed"}
  /\ ~interrupted
  /\ interrupted' = TRUE
  /\ UNCHANGED <<inputVars, mainVarsFrame, connVars, fsVars, listVars, i, fileVars,
                 workerVars, streamVars, poolHist>>

(* ------------------------------------------------------------------ *)
(* do_catchup: after the transfer                                       *)
(* ------------------------------------------------------------------ *)
tailFrame ==
  UNCHANGED <<inputVars, listVars, i, fileVars, workerVars, interrupted, poolHist,
              src_host_deleted>>

(* the control file copy is left out *)
CopyControlFileSkipped ==
  /\ pc = "copy_control"
  /\ Goto("report")
  /\ UNCHANGED <<connVars, dest_fs, touched, milestones, late_writes, streamVars>>
  /\ tailFrame

(* "at last copy control file" *)
CopyControlFile ==
  /\ pc = "copy_control"
  /\ IF all_threads_successful
     THEN /\ dest_fs' = [dest_fs EXCEPT ![source_pg_control_file] = S_IFREG]
          /\ touched' = touched \cup {source_pg_control_file}
          /\ milestones' = milestones \cup {"copy_pgcontrol_file"}
     ELSE UNCHANGED <<dest_fs, touched, milestones>>
  /\ Goto("report")
  /\ UNCHANGED <<connVars, late_writes, streamVars>>
  /\ tailFrame

(* the result of the pool is not looked at *)
ReportTransferIgnoresFailure ==
  /\ pc = "report"
  /\ Goto("restore_point")
  /\ UNCHANGED <<connVars, dest_fs, touched, milestones, late_writes, streamVars>>
  /\ tailFrame

ReportTransfer ==
  /\ pc = "report"
  /\ IF all_threads_successful
     THEN Goto("restore_point")
     ELSE Fatal("Data files transferring failed")
  /\ UNCHANGED <<connVars, dest_fs, touched, milestones, late_writes, streamVars>>
  /\ tailFrame

(* the restore point wanted only for a superuser, whatever the server *)
RestorePointSuperuserOnly ==
  /\ ~(opt.from_replica /\ ~exclusive_backup)
  /\ node.is_superuser

(* Create restore point *)
RestorePointWanted ==
  /\ ~opt.from_replica
  /\ ~(node.server_version < NonExclusiveVersion /\ ~node.is_superuser)

CreateRestorePoint ==
  /\ pc = "restore_point"
  /\ sent' = IF RestorePointWanted THEN Append(sent, "pg_create_restore_point") ELSE sent
  /\ Goto("stop_send")
  /\ UNCHANGED <<node, current, dest_redo, stop_backup_result, dest_fs, touched,
                 milestones, late_writes, streamVars>>
  /\ tailFrame

StopBackupSend ==
  /\ pc = "stop_send"
  /\ sent' = Append(sent, "pg_stop_backup")
  /\ Goto("stop_consume")
  /\ UNCHANGED <<node, current, dest_redo, stop_backup_result, dest_fs, touched,
                 milestones, late_writes, streamVars>>
  /\ tailFrame

(* the stop result is consumed and the wait for the streamed WAL is left out *)
StopBackupConsumeSkipsWait ==
  /\ pc = "stop_consume"
  /\ \/ /\ ~interrupted
        /\ \E lsn \in (current.start_lsn + 1)..(MaxLsn + 1) :
             stop_backup_result' = [lsn |-> lsn, backup_label_content |-> "label"]
        /\ Goto("write_label")
     \/ /\ ~interrupted
        /\ Fatal("pg_stop_backup doesn't answer")
        /\ UNCHANGED stop_backup_result
     \/ /\ interrupted
        /\ Fatal("interrupted during waiting for pg_stop_backup")
        /\ UNCHANGED stop_backup_result
  /\ UNCHANGED <<node, current, dest_redo, sent, dest_fs, touched,
                 milestones, late_writes, streamVars>>
  /\ tailFrame

(* pg_stop_backup_consume: the result arrives, or the wait times out; the
   waiting loop of the foreground thread polls the interrupt flag and ends
   the run when it finds it set *)
StopBackupConsume ==
  /\ pc = "stop_consume"
  /\ \/ /\ ~interrupted
        /\ \E lsn \in (current.start_lsn + 1)..(MaxLsn + 1) :
             stop_backup_result' = [lsn |-> lsn, backup_label_content |-> "label"]
        /\ Goto("wait_wal")
     \/ /\ ~interrupted
        /\ Fatal("pg_stop_backup doesn't answer")
        /\ UNCHANGED stop_backup_result
     \/ /\ interrupted
        /\ Fatal("interrupted during waiting for pg_stop_backup")
        /\ UNCHANGED stop_backup_result
  /\ UNCHANGED <<node, current, dest_redo, sent, dest_fs, touched,
                 milestones, late_writes, streamVars>>
  /\ tailFrame

(* wait_wal_and_calculate_stop_lsn: returns once the streamed WAL covers the
   stop LSN, fails when it does not arrive in time; its waiting loop polls
   the interrupt flag as well *)
WaitWal ==
  /\ pc = "wait_wal"
  /\ IF interrupted
     THEN /\ Fatal("Interrupted during waiting for WAL streaming")
          /\ UNCHANGED <<current, milestones>>
     ELSE IF flushed_lsn >= stop_backup_result.lsn
     THEN /\ current' = [current EXCEPT !.stop_lsn = stop_backup_result.lsn]
          /\ milestones' = milestones \cup {"wal_caught_up"}
          /\ Goto("write_label")
     ELSE /\ Fatal("WAL segment could not be streamed")
          /\ UNCHANGED <<current, milestones>>
  /\ UNCHANGED <<node, dest_redo, stop_backup_result, sent, dest_fs, touched,
                 late_writes, streamVars>>
  /\ tailFrame

(* Write backup_label: compiled in for PostgreSQL 9.6 and later only; an
   older build goes straight on to wait_WAL_streaming_end *)
WriteBackupLabel ==
  /\ pc = "write_label"
  /\ IF PG_VERSION_NUM >= LabelFileVersion
     THEN /\ dest_fs' = [dest_fs EXCEPT ![BackupLabelId] = S_IFREG]
          /\ touched' = touched \cup {BackupLabelId}
          /\ late_writes' = LateWrite(BackupLabelId)
          /\ milestones' = milestones \cup {"backup_label"}
          /\ stop_backup_result' =
               [stop_backup_result EXCEPT !.backup_label_content = "freed"]
     ELSE UNCHANGED <<dest_fs, touched, late_writes, milestones, stop_backup_result>>
  /\ Goto("wait_stream_end")
  /\ UNCHANGED <<node, current, dest_redo, sent, streamVars>>
  /\ tailFrame

(* wait_WAL_streaming_end: join the streamer *)
WaitStreamingEnd ==
  /\ pc = "wait_stream_end"
  /\ stream \in {"ended", "failed"}
  /\ IF stream = "failed" THEN Fatal("WAL streaming failed") ELSE Goto("recovery_info")
  /\ UNCHANGED <<connVars, dest_fs, touched, milestones, late_writes, streamVars>>
  /\ tailFrame

(* the recovery time is left as it is *)
ReadRecoveryInfoSkipped ==
  /\ pc = "recovery_info"
  /\ Goto("min_recovery_point")
  /\ UNCHANGED <<connVars, dest_fs, touched, milestones, late_writes, streamVars>>
  /\ tailFrame

(* read_recovery_info, with the fallback to the stop-backup invocation time *)
ReadRecoveryInfo ==
  /\ pc = "recovery_info"
  /\ \E t \in {"from_wal", "invocation_time"} :
       current' = [current EXCEPT !.recovery_time = t]
  /\ milestones' = milestones \cup {"recovery_time"}
  /\ Goto("min_recovery_point")
  /\ UNCHANGED <<node, dest_redo, stop_backup_result, sent, dest_fs, touched,
                 late_writes, streamVars>>
  /\ tailFrame

(* set_min_recovery_point rewrites the destination control file *)
SetMinRecoveryPoint ==
  /\ pc = "min_recovery_point"
  /\ IF opt.from_replica /\ ~exclusive_backup
     THEN /\ milestones' = milestones \cup {"set_min_recovery_point"}
          /\ touched' = touched \cup {source_pg_control_file}
     ELSE UNCHANGED <<milestones, touched>>
  /\ Goto("sync")
  /\ UNCHANGED <<connVars, dest_fs, late_writes, streamVars>>
  /\ tailFrame

(* catchup_sync_destination_files: fio_sync of every non-directory entry of
   the list and of the control file; a file that cannot be opened is fatal *)
SyncFails ==
  \/ \E k \in 1..Len(source_filelist) :
       ~S_ISDIR(source_filelist[k]) /\ dest_fs[source_filelist[k]] = NoEnt
  \/ dest_fs[source_pg_control_file] = NoEnt

SyncDestinationFiles ==
  /\ pc = "sync"
  /\ IF all_threads_successful /\ opt.sync_dest_files
     THEN /\ milestones' = milestones \cup {"fsync"}
          /\ IF SyncFails THEN Fatal("Cannot sync file") ELSE Goto("done")
     ELSE /\ UNCHANGED milestones
          /\ Goto("done")
  /\ UNCHANGED <<connVars, dest_fs, touched, late_writes, streamVars>>
  /\ tailFrame

(* ------------------------------------------------------------------ *)
(* WAL streamer thread                                                  *)
(* ------------------------------------------------------------------ *)
streamerFrame ==
  UNCHANGED <<inputVars, mainVarsFrame, connVars, src_host_deleted, milestones, listVars, i,
              fileVars, workerVars, interrupted, poolHist>>

WalSegmentId == IdOfPath(PG_XLOG_DIR \o <<47,48,48,48,49>>)

(* receive and flush more WAL into the destination WAL directory *)
StreamerFlush ==
  /\ pc \notin {"error", "done"}
  /\ stream = "on"
  /\ flushed_lsn <= MaxLsn
  /\ flushed_lsn' = flushed_lsn + 1
  /\ dest_fs' = [dest_fs EXCEPT ![WalSegmentId] = S_IFREG]
  /\ touched' = touched \cup {WalSegmentId}
  /\ late_writes' = LateWrite(WalSegmentId)
  /\ UNCHANGED stream
  /\ streamerFrame

(* the streamer stops once it has passed the stop LSN it was given *)
StreamerStop ==
  /\ pc \notin {"error", "done"}
  /\ stream = "on"
  /\ "wal_caught_up" \in milestones
  /\ flushed_lsn >= current.stop_lsn
  /\ stream' = "ended"
  /\ UNCHANGED <<flushed_lsn, dest_fs, touched, late_writes>>
  /\ streamerFrame

(* the replication connection breaks *)
StreamerFail ==
  /\ pc \notin {"error", "done"}
  /\ stream = "on"
  /\ stream' = "failed"
  /\ UNCHANGED <<flushed_lsn, dest_fs, touched, late_writes>>
  /\ streamerFrame

Streamer == StreamerFlush \/ StreamerStop \/ StreamerFail

(* ------------------------------------------------------------------ *)
(* Inputs                                                               *)
(* ------------------------------------------------------------------ *)
Lsns == 1..MaxLsn

(* parsed timeline history of a source on timeline 2: the entries (tli, end),
   the current timeline last with an invalid end; NullHistory when it cannot
   be fetched *)
TliHistories ==
  { NullHistory } \cup
  { <<[tli |-> 1, end |-> e], [tli |-> 2, end |-> InvalidXLogRecPtr]>> : e \in Lsns }

NoMapping == <<>>
AbsMapping == <<[old_dir |-> SrcTablespacePath, new_dir |-> AbsMappedPath]>>
RelMapping == <<[old_dir |-> SrcTablespacePath, new_dir |-> RelMappedPath]>>

(* a tree as the file system holds it: tablespace entries are symlinks *)
FsOf(T) ==
  [f \in FileIds |-> IF f \notin T THEN NoEnt
                     ELSE IF IsTablespaceLink(f) THEN S_IFLNK ELSE Mode(f)]

(* trees of the modelled directories, by relative path *)
TreeOf(paths) == {IdOfPath(p) : p \in paths}

P_base == <<98,97,115,101>>
P_base_1 == <<98,97,115,101,47,49>>
P_base_1_100 == <<98,97,115,101,47,49,47,49,48,48>>
P_base_1_200 == <<98,97,115,101,47,49,47,50,48,48>>
P_base_1_lnk == <<98,97,115,101,47,49,47,108,110,107>>
P_global == <<103,108,111,98,97,108>>
P_relmap == <<103,108,111,98,97,108,47>> \o RELMAPPER_FILENAME
P_tblspc_16384 == PG_TBLSPC_DIR \o <<47,49,54,51,56,52>>
P_wal_0001 == PG_XLOG_DIR \o <<47,48,48,48,49>>
P_version == <<80,71,95,86,69,82,83,73,79,78>>

TopLevelDirs == {P_base, P_global, PG_TBLSPC_DIR, PG_XLOG_DIR}

(* source clusters *)
SrcWithTablespace ==
  TreeOf(TopLevelDirs \cup {P_base_1, P_base_1_100, XLOG_CONTROL_FILE, P_relmap, P_tblspc_16384})
SrcTwoRelations ==
  TreeOf(TopLevelDirs \cup {P_base_1, P_base_1_100, P_base_1_200, XLOG_CONTROL_FILE, P_relmap})
SrcWithSymlink ==
  TreeOf(TopLevelDirs \cup {P_base_1, P_base_1_100, P_base_1_lnk, XLOG_CONTROL_FILE, P_relmap})
SrcWithVersionFile ==
  TreeOf(TopLevelDirs \cup {P_base_1, P_base_1_100, P_version, XLOG_CONTROL_FILE, P_relmap})
SrcDroppedDatabase ==
  TreeOf(TopLevelDirs \cup {XLOG_CONTROL_FILE, P_relmap})
SrcNoControl ==
  TreeOf(TopLevelDirs \cup {P_relmap})

(* destination directories *)
DestEmpty == {}
DestOlder ==
  TreeOf(TopLevelDirs \cup {P_base_1, P_base_1_100, P_base_1_200, XLOG_CONTROL_FILE,
                            P_relmap, P_wal_0001})
DestWithVersionFile ==
  TreeOf(TopLevelDirs \cup {P_base_1, P_base_1_100, P_version, XLOG_CONTROL_FILE,
                            P_relmap, P_wal_0001})
DestMinimal ==
  TreeOf({P_global, XLOG_CONTROL_FILE, PG_XLOG_DIR})
DestWithLabel ==
  TreeOf(TopLevelDirs \cup {XLOG_CONTROL_FILE, PG_BACKUP_LABEL_FILE})
DestNoControl ==
  TreeOf(TopLevelDirs)

(* file sizes: all different, or with ties *)
SizeDistinct == [f \in FileIds |-> 10 * f]
SizeTies == [f \in FileIds |-> IF S_ISDIR(f) THEN 10 * f ELSE 5]

(* ------------------------------------------------------------------ *)
(* Initial states                                                       *)
(* ------------------------------------------------------------------ *)
InitWith(o, e) ==
  /\ opt = o
  /\ env = e
  /\ pc = "collect_info"
  /\ errmsg = ""
  /\ node = [server_version |-> 0, is_superuser |-> FALSE,
             ptrack_version_num |-> 0, is_ptrack_enabled |-> FALSE]
  /\ current = [tli |-> 0, start_lsn |-> InvalidXLogRecPtr,
                stop_lsn |-> InvalidXLogRecPtr, recovery_time |-> "unset"]
  /\ dest_redo = [tli |-> 0, lsn |-> InvalidXLogRecPtr]
  /\ dest_fs = FsOf(e.dest_tree)
  /\ src_host_deleted = {}
  /\ source_filelist = <<>>
  /\ dest_filelist = <<>>
  /\ source_pg_control_file = NullFile
  /\ i = 1
  /\ lock = [f \in FileIds |-> FALSE]
  /\ exists_in_prev = [f \in FileIds |-> FALSE]
  /\ write_size = [f \in FileIds |-> NotCopied]
  /\ wpc = [w \in Threads |-> "none"]
  /\ wi = [w \in Threads |-> 1]
  /\ completed = [w \in Threads |-> FALSE]
  /\ interrupted = FALSE
  /\ thread_interrupted = FALSE
  /\ fio_connected = [w \in Threads |-> FALSE]
  /\ stream = "off"
  /\ flushed_lsn = InvalidXLogRecPtr
  /\ stop_backup_result = [lsn |-> InvalidXLogRecPtr, backup_label_content |-> "unset"]
  /\ sent = <<>>
  /\ claimers = [f \in FileIds |-> {}]
  /\ copiers = [f \in FileIds |-> {}]
  /\ touched = {}
  /\ milestones = {}
  /\ late_writes = {}

(* a healthy pair of clusters: every preflight answer is acceptable *)
HealthyEnv ==
  [remote |-> FALSE,
   src_tree |-> SrcTwoRelations,
   src_size |-> SizeDistinct,
   dest_tree |-> DestOlder,
   postmaster_pid |-> 0,
   dest_dbstate |-> "DB_SHUTDOWNED",
   source_conn_id |-> 7001,
   source_id |-> 7001,
   dest_id |-> 7001,
   pg_version_num |-> 110000,
   server_version |-> 110000,
   is_superuser |-> TRUE,
   ptrack_version_num |-> 200,
   is_ptrack_enabled |-> TRUE,
   tli |-> 1,
   tli_history |-> NullHistory,
   tli_reply_wellformed |-> TRUE,
   wal_seg_size_retrieved |-> TRUE,
   tablespaces_res |-> TRUE,
   dest_redo_tli |-> 1,
   dest_redo_lsn |-> 1,
   tablespace_dir_empty |-> TRUE,
   start_lsn |-> MaxLsn,
   ptrack_lsn |-> 1,
   vanished |-> {},
   unchanged |-> {},
   unreadable |-> {}]

DefaultOpt ==
  [backup_mode |-> BACKUP_MODE_DIFF_DELTA,
   num_threads |-> 1,
   from_replica |-> FALSE,
   sync_dest_files |-> TRUE,
   tablespace_mapping |-> AbsMapping]

(* Inputs of the transfer runs: trees, modes, hosts and thread counts vary
   over healthy clusters; then sizes, vanishing, unchanged and unreadable
   source files vary over two of the tree pairs; then the sync flag, the
   replica flag and the version of server and build, with one worker; then a
   source with a symlink entry; then a source with an ordinary file that is
   not a relation file (PG_VERSION), changed or unchanged. *)
TransferInputs ==
  { <<[DefaultOpt EXCEPT !.backup_mode = m, !.num_threads = n],
      [HealthyEnv EXCEPT !.remote = r, !.src_tree = s, !.dest_tree = d]>> :
      m \in BackupModes, n \in Threads, r \in BOOLEAN,
      s \in {SrcWithTablespace, SrcTwoRelations, SrcDroppedDatabase, SrcNoControl},
      d \in {DestEmpty, DestOlder, DestMinimal} }
  \cup
  { <<[DefaultOpt EXCEPT !.backup_mode = m, !.num_threads = n],
      [HealthyEnv EXCEPT !.dest_tree = d, !.src_size = z, !.vanished = v,
                         !.unchanged = u, !.unreadable = x]>> :
      m \in {BACKUP_MODE_FULL, BACKUP_MODE_DIFF_DELTA}, n \in Threads,
      d \in {DestEmpty, DestOlder}, z \in {SizeDistinct, SizeTies},
      v \in {{}, {IdOfPath(P_base_1_100)}}, u \in {{}, FileIds},
      x \in {{}, {IdOfPath(P_relmap)}} }
  \cup
  { <<[DefaultOpt EXCEPT !.backup_mode = m, !.sync_dest_files = y, !.from_replica = fr],
      [HealthyEnv EXCEPT !.dest_tree = d, !.vanished = v, !.pg_version_num = b,
                         !.server_version = b]>> :
      m \in {BACKUP_MODE_FULL, BACKUP_MODE_DIFF_DELTA}, y \in BOOLEAN, fr \in BOOLEAN,
      d \in {DestEmpty, DestOlder}, v \in {{}, {IdOfPath(P_base_1_100)}},
      b \in {90500, 110000} }
  \cup
  { <<[DefaultOpt EXCEPT !.backup_mode = m, !.num_threads = n],
      [HealthyEnv EXCEPT !.src_tree = SrcWithSymlink, !.dest_tree = d]>> :
      m \in {BACKUP_MODE_FULL, BACKUP_MODE_DIFF_DELTA}, n \in Threads,
      d \in {DestEmpty, DestOlder} }
  \cup
  { <<[DefaultOpt EXCEPT !.backup_mode = m, !.num_threads = n],
      [HealthyEnv EXCEPT !.src_tree = SrcWithVersionFile, !.dest_tree = d,
                         !.unchanged = u]>> :
      m \in {BACKUP_MODE_FULL, BACKUP_MODE_DIFF_DELTA}, n \in Threads,
      d \in {DestEmpty, DestWithVersionFile}, u \in {{}, FileIds} }

Init == \E in \in TransferInputs : InitWith(in[1], in[2])

(* Inputs of the runs that probe the hosts' answers: one worker, and one
   group of related answers at a time varies around the healthy pair; the
   server's version varies together with the version the program is built
   for; the last group holds the queries that fail or answer in an
   unexpected shape. *)
SystemIds == {7001, 7002}

AnswerInputs ==
  { <<[DefaultOpt EXCEPT !.backup_mode = m],
      [HealthyEnv EXCEPT !.dest_tree = d, !.src_tree = s]>> :
      m \in BackupModes,
      d \in {DestEmpty, DestOlder, DestMinimal, DestWithLabel, DestNoControl},
      s \in {SrcWithTablespace, SrcTwoRelations} }
  \cup
  { <<[DefaultOpt EXCEPT !.backup_mode = m],
      [HealthyEnv EXCEPT !.dest_tree = d, !.postmaster_pid = pid, !.dest_dbstate = st]>> :
      m \in BackupModes, d \in {DestEmpty, DestOlder},
      pid \in {0, 1, 4242},
      st \in {"DB_SHUTDOWNED", "DB_SHUTDOWNED_IN_RECOVERY", "DB_IN_PRODUCTION"} }
  \cup
  { <<[DefaultOpt EXCEPT !.backup_mode = m],
      [HealthyEnv EXCEPT !.dest_tree = d, !.source_conn_id = a, !.source_id = b,
                         !.dest_id = c]>> :
      m \in BackupModes, d \in {DestEmpty, DestOlder},
      a \in SystemIds, b \in SystemIds, c \in SystemIds }
  \cup
  { <<[DefaultOpt EXCEPT !.backup_mode = m],
      [HealthyEnv EXCEPT !.dest_tree = d, !.ptrack_version_num = pv,
                         !.is_ptrack_enabled = pe, !.ptrack_lsn = pl,
                         !.dest_redo_lsn = rl, !.start_lsn = sl]>> :
      m \in BackupModes, d \in {DestEmpty, DestOlder},
      pv \in {0, 150, 200}, pe \in BOOLEAN, pl \in {InvalidXLogRecPtr} \cup Lsns,
      rl \in Lsns, sl \in Lsns }
  \cup
  { <<[DefaultOpt EXCEPT !.backup_mode = m, !.from_replica = fr, !.sync_dest_files = y],
      [HealthyEnv EXCEPT !.dest_tree = d, !.pg_version_num = b, !.server_version = sv,
                         !.is_superuser = su, !.start_lsn = sl]>> :
      m \in BackupModes, fr \in BOOLEAN, y \in BOOLEAN, d \in {DestEmpty, DestOlder},
      b \in {90500, 110000}, sv \in {90500, 110000}, su \in BOOLEAN, sl \in Lsns }
  \cup
  { <<[DefaultOpt EXCEPT !.backup_mode = m, !.tablespace_mapping = tm],
      [HealthyEnv EXCEPT !.dest_tree = d, !.src_tree = s, !.remote = r,
                         !.tablespace_dir_empty = te]>> :
      m \in BackupModes, tm \in {NoMapping, AbsMapping, RelMapping},
      d \in {DestEmpty, DestOlder}, s \in {SrcWithTablespace, SrcTwoRelations},
      r \in BOOLEAN, te \in BOOLEAN }
  \cup
  { <<[DefaultOpt EXCEPT !.backup_mode = m],
      [HealthyEnv EXCEPT !.dest_tree = d, !.tli = t, !.tli_history = h,
                         !.dest_redo_tli = rt, !.dest_redo_lsn = rl]>> :
      m \in BackupModes, d \in {DestEmpty, DestOlder},
      t \in {1, 2}, h \in TliHistories, rt \in {1, 2, 3}, rl \in Lsns }
  \cup
  { <<[DefaultOpt EXCEPT !.backup_mode = m],
      [HealthyEnv EXCEPT !.dest_tree = d, !.src_tree = s, !.tli = t, !.tli_history = h,
                         !.tli_reply_wellformed = wf, !.wal_seg_size_retrieved = ws,
                         !.tablespaces_res = tr, !.pg_version_num = b,
                         !.server_version = b]>> :
      m \in BackupModes, d \in {DestEmpty, DestOlder},
      s \in {SrcWithTablespace, SrcTwoRelations},
      t \in {1, 2}, h \in TliHistories, wf \in BOOLEAN, ws \in BOOLEAN,
      tr \in BOOLEAN, b \in {100000, 110000} }

InitAnswers == \E in \in AnswerInputs : InitWith(in[1], in[2])

(* ------------------------------------------------------------------ *)
(* Next-state relation                                                  *)
(* ------------------------------------------------------------------ *)
Next ==
  \/ CollectInfo
  \/ Preflight
  \/ StartBackup
  \/ ListDestination
  \/ CheckPtrackLsn
  \/ CheckStartLsn
  \/ StartWalStreaming
  \/ ListSource
  \/ CreateDirectory
  \/ CreateDirectoriesDone
  \/ ExtractControlFile
  \/ ReaperSort
  \/ ReaperStep
  \/ ReaperDone
  \/ PrepareTransfer
  \/ RunThreads
  \/ Worker
  \/ JoinThreads
  \/ CopyControlFile
  \/ ReportTransfer
  \/ CreateRestorePoint
  \/ StopBackupSend
  \/ StopBackupConsume
  \/ WaitWal
  \/ WriteBackupLabel
  \/ WaitStreamingEnd
  \/ ReadRecoveryInfo
  \/ SetMinRecoveryPoint
  \/ SyncDestinationFiles
  \/ Streamer
  \/ Interrupt

Spec == Init /\ [][Next]_vars

SpecAnswers == InitAnswers /\ [][Next]_vars

(* ------------------------------------------------------------------ *)
(* Properties                                                           *)
(* ------------------------------------------------------------------ *)
PoolStarted == "pool_started" \in milestones
ControlCopied == "copy_pgcontrol_file" \in milestones

(* C1: claim exclusivity.  Whatever the list and the number of workers, the
   test-and-set of an entry succeeds for at most one worker, so at most one
   copier invocation is made for the entry, by the worker that claimed it, and
   the entry's outcome fields are set only once a claiming worker has run the
   copier step. *)
C1_ClaimExclusivity ==
  \A f \in FileIds :
    /\ Cardinality(claimers[f]) <= 1
    /\ Cardinality(copiers[f]) <= 1
    /\ copiers[f] \subseteq claimers[f]
    /\ (write_size[f] # NotCopied \/ exists_in_prev[f]) => copiers[f] # {}

(* two workers have each claimed and copied an entry of the same list *)
C1_Witness ==
  /\ opt.num_threads >= 2
  /\ \E f, g \in FileIds :
       /\ f # g
       /\ copiers[f] = {1} /\ copiers[g] = {2}
       /\ write_size[f] = BYTES_WRITTEN /\ write_size[g] = BYTES_WRITTEN

(* C2: the control file is not in the list the pool works on and no worker
   claims or copies it; the foreground thread copies it only when every
   worker has ended and been joined, so no entry of the list is written after
   the control file copy. *)
C2_ControlFileOutsidePool ==
  /\ PoolStarted => ControlFileId \notin SeqToSet(source_filelist)
  /\ claimers[ControlFileId] = {} /\ copiers[ControlFileId] = {}
  /\ ControlCopied =>
       /\ "pool_joined" \in milestones
       /\ \A w \in Workers : wpc[w] \in {"exited", "failed"}
       /\ late_writes \cap SeqToSet(source_filelist) = {}

(* the control file has been copied after two workers wrote files *)
C2_Witness ==
  /\ ControlCopied
  /\ dest_fs[ControlFileId] = S_IFREG
  /\ opt.num_threads >= 2
  /\ \E f, g \in FileIds : f # g /\ copiers[f] = {1} /\ copiers[g] = {2}


LabelWritten == "backup_label" \in milestones
PoolWritten == {f \in FileIds : copiers[f] # {} /\ write_size[f] = BYTES_WRITTEN}

(* C3 (as stated): in every successful catchup the control file is the last
   regular file written into the destination; no regular file is written
   there after the control file copy. *)
C3_ControlFileWrittenLast == pc = "done" => late_writes = {}

(* C3 (amended): every regular file of the source list that the catchup
   writes is written before the control file is copied; the only regular
   files written after the control file copy are the backup label, which a
   successful catchup always writes after it unless the program is built
   for a PostgreSQL older than 9.6 (then no label is written at all), and
   streamed WAL segments. *)
C3_ControlFileAfterPool ==
  /\ late_writes \subseteq {BackupLabelId, WalSegmentId}
  /\ late_writes \cap PoolWritten = {}
  /\ pc = "done" =>
       /\ ControlCopied
       /\ IF PG_VERSION_NUM >= LabelFileVersion
          THEN BackupLabelId \in late_writes
          ELSE BackupLabelId \notin touched

(* a successful catchup whose pool wrote files and whose backup label was
   written after the control file copy *)
C3_Witness ==
  /\ pc = "done"
  /\ PoolWritten # {}
  /\ BackupLabelId \in late_writes
  /\ dest_fs[ControlFileId] = S_IFREG

(* C4: the control file copy has completed whenever the backup label has been
   written into the destination root or the fsync of destination files has
   started. *)
C4_ControlBeforeLabelAndSync ==
  (LabelWritten \/ "fsync" \in milestones \/ pc = "sync") =>
     ControlCopied /\ dest_fs[ControlFileId] = S_IFREG

(* the destination has been synced after the label and the control file *)
C4_Witness ==
  /\ "fsync" \in milestones
  /\ LabelWritten
  /\ ControlCopied

(* C5: the backup label is written only once stop-backup has returned its
   stop LSN and the wait for the streamed WAL has completed; whenever the
   label has been written the streamer's flushed position is at or above the
   stop LSN. *)
C5_LabelAfterWalCaughtUp ==
  (LabelWritten \/ pc = "write_label") =>
     /\ "pg_stop_backup" \in SeqToSet(sent)
     /\ stop_backup_result.lsn # InvalidXLogRecPtr
     /\ "wal_caught_up" \in milestones
     /\ flushed_lsn >= stop_backup_result.lsn

(* the label was written after the streamer had to advance more than one
   position past the start LSN to reach the stop LSN *)
C5_Witness ==
  /\ LabelWritten
  /\ stop_backup_result.lsn > current.start_lsn + 1
  /\ flushed_lsn >= stop_backup_result.lsn


(* the messages of catchup_preflight_checks *)
PreflightMessages ==
  {"is empty, but incremental catchup mode requested.",
   "Can't perform full catchup into non-empty directory",
   "Pid file is mangled, cannot determine whether postmaster is running or not",
   "Postmaster is running in destination directory",
   "Destination directory contains backup_label file",
   "Postmaster in destination directory must be stopped cleanly",
   "Database identifiers mismatch: connected DB vs source PGDATA",
   "Database identifiers mismatch: connected DB vs destination PGDATA",
   "This PostgreSQL instance does not support ptrack",
   "ptrack extension is too old.",
   "Ptrack is disabled",
   "Catchup from standby is only available for PostgreSQL >= 9.6",
   "Local catchup executed, but source database contains tablespace, that is not listed in the map",
   "Tablespace directory path must be an absolute path: \"%s\"",
   "Target mapped tablespace directory is not empty in FULL catchup",
   "Failed to get list of tablespaces",
   "Unexpected response to TIMELINE_HISTORY command",
   "Cannot get source timeline history",
   "Destination is not in source timeline history",
   "Source is behind destination in timeline history"}

PreflightFailed == pc = "error" /\ errmsg \in PreflightMessages
(* catchup_collect_info has ended the run before any preflight check *)
CollectInfoFailed == pc = "error" /\ errmsg = "Failed to retrieve wal_segment_size"
PreflightEntered == pc # "collect_info" /\ ~CollectInfoFailed
InPreflight ==
  pc \in {"pf_empty", "pf_postmaster", "pf_label", "pf_dbstate", "pf_sysid",
          "pf_ptrack", "pf_replica", "pf_tblspc", "pf_timeline"}
DestinationUntouched ==
  /\ dest_fs = FsOf(env.dest_tree)
  /\ touched = {}
  /\ src_host_deleted = {}

(* C6: when a preflight check fails the catchup ends with the destination as
   it was found (nothing created, modified or deleted), without a start-backup
   request issued and without WAL streaming started; the same holds while the
   checks are still running. *)
C6_PreflightFailureTouchesNothing ==
  (PreflightFailed \/ InPreflight) =>
     /\ DestinationUntouched
     /\ sent = <<>>
     /\ stream = "off"
     /\ \A w \in Threads : wpc[w] = "none"

(* the last of the checks, the timeline check, has rejected a non-empty
   destination *)
C6_Witness ==
  /\ PreflightFailed
  /\ errmsg \in {"Destination is not in source timeline history",
                 "Source is behind destination in timeline history"}
  /\ ~dir_is_empty(dest_fs)

DestInitiallyEmpty == dir_is_empty(FsOf(env.dest_tree))
EmptinessChecked == PreflightEntered /\ pc # "pf_empty"
NonEmptyMessage == "Can't perform full catchup into non-empty directory"
EmptyMessage == "is empty, but incremental catchup mode requested."

(* C7: once the emptiness check has run, a FULL catchup goes on only with an
   empty destination and a DELTA or PTRACK catchup only with a non-empty one;
   FULL into a non-empty destination ends with the non-empty message and the
   destination unmodified, an incremental mode into an empty one with the
   empty message. *)
C7_EmptinessRule ==
  EmptinessChecked =>
    /\ (opt.backup_mode = BACKUP_MODE_FULL /\ ~DestInitiallyEmpty) =>
          pc = "error" /\ errmsg = NonEmptyMessage /\ DestinationUntouched
    /\ (opt.backup_mode # BACKUP_MODE_FULL /\ DestInitiallyEmpty) =>
          pc = "error" /\ errmsg = EmptyMessage /\ DestinationUntouched
    /\ (pc = "error" /\ errmsg = NonEmptyMessage) =>
          opt.backup_mode = BACKUP_MODE_FULL /\ ~DestInitiallyEmpty
    /\ (pc = "error" /\ errmsg = EmptyMessage) =>
          opt.backup_mode # BACKUP_MODE_FULL /\ DestInitiallyEmpty

(* a FULL catchup into a destination that holds files has been rejected *)
C7_Witness ==
  /\ pc = "error" /\ errmsg = NonEmptyMessage
  /\ opt.backup_mode = BACKUP_MODE_FULL
  /\ \E f \in FileIds : dest_fs[f] = S_IFREG


ReaperFinished == opt.backup_mode # BACKUP_MODE_FULL /\ pc = "prepare"
DestinationOnly(f) ==
  /\ dest_fs[f] # NoEnt \/ f \in SeqToSet(dest_filelist)
  /\ f \notin SeqToSet(source_filelist)

(* C8: in DELTA and PTRACK modes, when the reaper loop has finished, every
   path still present in the destination directory or in the in-memory
   destination list and absent from the source list is a protected path (WAL
   directory contents, excluded files). *)
C8_ReaperLaw ==
  ReaperFinished => \A f \in FileIds : DestinationOnly(f) => IsExcludedFromScan(f)


WorkerRunning == \E w \in Threads : wpc[w] \in {"loop", "acquired", "claimed"}
WorkerStarted == \E w \in Threads : wpc[w] # "none"
BeforePool ==
  pc \in {"collect_info", "pf_empty", "pf_postmaster", "pf_label", "pf_dbstate",
          "pf_sysid", "pf_ptrack", "pf_replica", "pf_tblspc", "pf_timeline",
          "start_backup", "list_dest", "ptrack_lsn", "check_lsn", "start_stream",
          "list_source", "mkdirs", "find_control", "reap_sort", "reap", "prepare",
          "run_threads"}
NoDeletionStep ==
  /\ dest_filelist' = dest_filelist
  /\ src_host_deleted' = src_host_deleted
  /\ \A f \in FileIds : dest_fs[f] # NoEnt => dest_fs'[f] # NoEnt

(* C9: no worker of the pool has been started while the foreground thread is
   at or before the reaper, and no step taken while a worker runs deletes a
   destination path or changes the destination list the workers search. *)
C9_ReaperBeforePool ==
  /\ [](WorkerStarted => ~BeforePool)
  /\ [][(WorkerRunning \/ WorkerRunning') => NoDeletionStep]_vars

(* after the reaper deleted a destination file, a worker has claimed an entry
   that its binary search finds in the destination list *)
C9_Witness ==
  /\ opt.backup_mode # BACKUP_MODE_FULL
  /\ \E f \in touched : dest_fs[f] = NoEnt
  /\ \E w \in Workers :
       /\ wpc[w] = "claimed"
       /\ parray_bsearch(dest_filelist, source_filelist[wi[w]]) # 0

DirReady(d) == dest_fs[d] \in {S_IFDIR, S_IFLNK}
AscendingByPath(s) ==
  \A k, l \in 1..Len(s) : k < l => strcmp(RelPath(s[k]), RelPath(s[l])) < 0

(* C10: the directory loop walks the source list in ascending path order, so
   a directory's parent has been handled before it and every directory the
   loop has passed exists in the destination with its parent; when the pool
   has been started every directory of the source list exists in the
   destination as a directory or a tablespace link, and so does every
   directory above an entry a worker is about to copy. *)
C10_TopologyOrdering ==
  /\ pc = "mkdirs" =>
       /\ AscendingByPath(source_filelist)
       /\ \A k \in 1..(i - 1) :
            S_ISDIR(source_filelist[k]) =>
              /\ DirReady(source_filelist[k])
              /\ \A d \in Ancestors(source_filelist[k]) : DirReady(d)
  /\ PoolStarted =>
       \A k \in 1..Len(source_filelist) :
         S_ISDIR(source_filelist[k]) => DirReady(source_filelist[k])
  /\ \A w \in Threads :
       wpc[w] = "claimed" => \A d \in Ancestors(source_filelist[wi[w]]) : DirReady(d)

(* into an empty destination: a worker is about to copy a file two levels
   down, and the tablespace link has been created *)
C10_Witness ==
  /\ dir_is_empty(FsOf(env.dest_tree))
  /\ \E w \in Workers :
       /\ wpc[w] = "claimed"
       /\ Cardinality(Ancestors(source_filelist[wi[w]])) >= 2
  /\ \E d \in FileIds : dest_fs[d] = S_IFLNK


StopSent == "pg_stop_backup" \in SeqToSet(sent)

(* the state of the online-snapshot controller, read off the program state *)
ControllerState ==
  IF pc = "error" THEN "FAILED"
  ELSE IF sent = <<>> THEN "INIT"
  ELSE IF stream = "off" THEN "STARTED"
  ELSE IF ~StopSent THEN "STREAMING"
  ELSE IF stop_backup_result.lsn = InvalidXLogRecPtr THEN "STOP_SENT"
  ELSE IF "wal_caught_up" \notin milestones THEN "STOP_DONE"
  ELSE IF pc # "done" THEN "WAL_CAUGHT_UP"
  ELSE "DONE"

ControllerEdges ==
  {<<"INIT", "STARTED">>, <<"STARTED", "STREAMING">>, <<"STREAMING", "STOP_SENT">>,
   <<"STOP_SENT", "STOP_DONE">>, <<"STOP_DONE", "WAL_CAUGHT_UP">>,
   <<"WAL_CAUGHT_UP", "DONE">>}

ControllerStep ==
  \/ ControllerState' = ControllerState
  \/ <<ControllerState, ControllerState'>> \in ControllerEdges
  \/ ControllerState # "DONE" /\ ControllerState' = "FAILED"

FailedIsTerminal ==
  pc = "error" =>
    /\ pc' = "error"
    /\ sent' = sent
    /\ dest_fs' = dest_fs /\ touched' = touched /\ late_writes' = late_writes
    /\ src_host_deleted' = src_host_deleted

(* C11: the controller moves only along INIT, STARTED, STREAMING, STOP_SENT,
   STOP_DONE, WAL_CAUGHT_UP, DONE, one state at a time, or into FAILED;
   stop-backup has been sent only when the pool has been joined with every
   worker completed; from FAILED no step sends a request to the source or
   changes the destination. *)
C11_ControllerForwardOnly ==
  /\ [][ControllerStep]_vars
  /\ [](StopSent => /\ "pool_joined" \in milestones
                    /\ \A w \in Workers : completed[w]
                    /\ sent[1] = "pg_start_backup")
  /\ [][FailedIsTerminal]_vars

(* the controller failed after the stop result had been consumed, with the
   streamer still running *)
C11_Witness ==
  /\ ControllerState = "FAILED"
  /\ StopSent
  /\ stop_backup_result.lsn # InvalidXLogRecPtr
  /\ stream = "on"
  /\ flushed_lsn < stop_backup_result.lsn


PoolFailure == \E w \in Workers : wpc[w] = "failed"

(* C12 (as stated): once the interrupt flag has been set while the pool was
   running, the catchup does not copy the control file, does not write the
   backup label and does not end successfully. *)
C12_InterruptIsFatal ==
  interrupted => ~ControlCopied /\ ~LabelWritten /\ pc # "done"

(* C12 (amended): a worker reads the interrupt flag once per entry, after it
   has acquired the entry and before the copier runs.  A worker that finds
   the flag set ends with an error and invokes no copier for the acquired
   entry, whether the flag was set before or after the entry was acquired; a
   copier starts only for an entry whose check found the flag clear.  Once a
   worker has ended that way the catchup ends with a fatal error, the control
   file is not copied and the backup label is not written.  A flag set after
   every worker has made its last check is not observed by the pool: the
   pool succeeds and the control file is copied; the foreground thread finds
   the flag set when it waits for the stop-backup result, so that also then
   the catchup ends with a fatal error and writes no backup label. *)
C12_InterruptObservedAtClaim ==
  /\ [][\A w \in Workers :
          /\ (interrupted /\ wpc[w] = "acquired" /\ wpc'[w] # "acquired") =>
                /\ wpc'[w] = "failed"
                /\ copiers' = copiers
          /\ (wpc[w] # "claimed" /\ wpc'[w] = "claimed") =>
                wpc[w] = "acquired" /\ ~interrupted
          /\ (interrupted /\ wpc[w] = "loop" /\ wpc'[w] # "loop") =>
                /\ wpc'[w] \in {"acquired", "exited"}
                /\ copiers' = copiers
                /\ (wpc'[w] = "exited" => wi'[w] > Len(source_filelist))]_vars
  /\ [](PoolFailure => /\ ~ControlCopied /\ ~LabelWritten
                       /\ ~StopSent /\ pc # "done")
  /\ [](interrupted => /\ ~LabelWritten /\ pc # "done"
                       /\ stop_backup_result.lsn = InvalidXLogRecPtr)
  /\ []((interrupted /\ pc = "error") =>
           errmsg \in {"Data files transferring failed",
                       "interrupted during waiting for pg_stop_backup"})
  /\ []((PoolFailure /\ "pool_joined" \in milestones) =>
           pc \in {"copy_control", "report", "error"})

(* the flag was set while the pool was running; the next check observed it,
   the acquired entry was not copied and the catchup failed *)
C12_Witness ==
  /\ interrupted
  /\ pc = "error" /\ errmsg = "Data files transferring failed"
  /\ \E f \in FileIds : claimers[f] # {} /\ copiers[f] = {}
  /\ \E g \in FileIds : copiers[g] # {}


PreflightPassed == PreflightEntered /\ ~InPreflight /\ ~PreflightFailed
HistoryObtained ==
  /\ catchup_get_tli_history.error = ""
  /\ catchup_get_tli_history.result # NullHistory
DestinationOnHistory ==
  satisfy_timeline(env.tli_history, env.dest_redo_tli, env.dest_redo_lsn)
TimelineMessages ==
  {"Unexpected response to TIMELINE_HISTORY command",
   "Cannot get source timeline history",
   "Destination is not in source timeline history",
   "Source is behind destination in timeline history"}

(* C13 (as stated): in every backup mode, a catchup whose source is not on
   timeline 1 passes preflight only if the source timeline history was
   obtained and the destination's redo point satisfies it. *)
C13_TimelineCheckedInEveryMode ==
  (PreflightPassed /\ env.tli # FirstTimeline) =>
     HistoryObtained /\ DestinationOnHistory

(* C13 (amended): in DELTA and PTRACK modes, a catchup whose source is not on
   timeline 1 passes preflight only if the history was obtained and the
   destination's redo point satisfies it, and it is rejected with the message
   of the first failure: the reply to the history command has an unexpected
   shape, the history cannot be obtained, or the destination is not on it; in
   FULL mode the timeline check is not run and never rejects. *)
C13_TimelineCheckedWhenIncremental ==
  /\ (PreflightPassed /\ opt.backup_mode # BACKUP_MODE_FULL /\ env.tli # FirstTimeline) =>
        HistoryObtained /\ DestinationOnHistory
  /\ (PreflightFailed /\ errmsg = "Unexpected response to TIMELINE_HISTORY command") =>
        /\ opt.backup_mode # BACKUP_MODE_FULL /\ env.tli # FirstTimeline
        /\ env.tli_history # NullHistory /\ ~env.tli_reply_wellformed
  /\ (PreflightFailed /\ errmsg = "Cannot get source timeline history") =>
        /\ opt.backup_mode # BACKUP_MODE_FULL /\ env.tli # FirstTimeline
        /\ env.tli_history = NullHistory
  /\ (PreflightFailed /\ errmsg = "Destination is not in source timeline history") =>
        /\ opt.backup_mode # BACKUP_MODE_FULL /\ env.tli # FirstTimeline
        /\ HistoryObtained /\ ~DestinationOnHistory
  /\ opt.backup_mode = BACKUP_MODE_FULL => errmsg \notin TimelineMessages

(* an incremental catchup from a source on timeline 2 was rejected because
   the destination's redo point is not on the source's history *)
C13_Witness ==
  /\ PreflightFailed
  /\ errmsg = "Destination is not in source timeline history"
  /\ opt.backup_mode # BACKUP_MODE_FULL
  /\ env.tli = 2 /\ HistoryObtained


(* the timeline check has been reached and has given its verdict *)
TimelineCheckRun ==
  /\ PreflightEntered /\ ~InPreflight
  /\ ~(PreflightFailed /\ errmsg \notin TimelineMessages)

(* C14: with the source on timeline 1, an incremental catchup that reaches
   the timeline check passes it exactly when the destination's redo timeline
   is 1; with any other destination timeline preflight fails with "Source is
   behind destination in timeline history", the destination is untouched
   and nothing has been requested from the source. *)
C14_FirstTimelineRule ==
  (TimelineCheckRun /\ opt.backup_mode # BACKUP_MODE_FULL /\ env.tli = FirstTimeline) =>
     IF env.dest_redo_tli = FirstTimeline
     THEN ~PreflightFailed
     ELSE /\ PreflightFailed
          /\ errmsg = "Source is behind destination in timeline history"
          /\ DestinationUntouched
          /\ sent = <<>> /\ stream = "off"

(* a DELTA or PTRACK catchup from a source on timeline 1 was rejected because
   the destination is on a later timeline *)
C14_Witness ==
  /\ PreflightFailed
  /\ errmsg = "Source is behind destination in timeline history"
  /\ env.tli = FirstTimeline /\ env.dest_redo_tli > FirstTimeline
  /\ ~dir_is_empty(dest_fs)


BeforeSystemIdMessages ==
  {EmptyMessage, NonEmptyMessage,
   "Pid file is mangled, cannot determine whether postmaster is running or not",
   "Postmaster is running in destination directory",
   "Destination directory contains backup_label file",
   "Postmaster in destination directory must be stopped cleanly"}
SystemIdMessages ==
  {"Database identifiers mismatch: connected DB vs source PGDATA",
   "Database identifiers mismatch: connected DB vs destination PGDATA"}
SystemIdCheckRun ==
  /\ PreflightEntered
  /\ pc \notin {"pf_empty", "pf_postmaster", "pf_label", "pf_dbstate",
                "pf_sysid"}
  /\ ~(PreflightFailed /\ errmsg \in BeforeSystemIdMessages)
SystemIdsAgree ==
  /\ env.source_id = env.source_conn_id
  /\ opt.backup_mode # BACKUP_MODE_FULL => env.dest_id = env.source_conn_id

(* C15: once the identity check has run, the catchup has gone past it exactly
   when the identifier in the source control file equals the one the
   connected source returned and, in DELTA and PTRACK modes, the one in the
   destination control file equals it too; any disagreement ends the catchup
   with the mismatch error and the destination untouched. *)
C15_SystemIdentifierMatch ==
  SystemIdCheckRun =>
    /\ SystemIdsAgree <=> ~(PreflightFailed /\ errmsg \in SystemIdMessages)
    /\ (PreflightFailed /\ errmsg \in SystemIdMessages) =>
          DestinationUntouched /\ sent = <<>>
    /\ errmsg = "Database identifiers mismatch: connected DB vs source PGDATA" =>
          env.source_id # env.source_conn_id
    /\ errmsg = "Database identifiers mismatch: connected DB vs destination PGDATA" =>
          env.source_id = env.source_conn_id /\ env.dest_id # env.source_conn_id

(* source control file and connection agree and the destination belongs to
   another cluster: an incremental catchup was rejected *)
C15_Witness ==
  /\ PreflightFailed
  /\ errmsg = "Database identifiers mismatch: connected DB vs destination PGDATA"
  /\ env.source_id = env.source_conn_id
  /\ opt.backup_mode # BACKUP_MODE_FULL


PtrackMessages ==
  {"This PostgreSQL instance does not support ptrack",
   "ptrack extension is too old.",
   "Ptrack is disabled"}
ReplicaMessage == "Catchup from standby is only available for PostgreSQL >= 9.6"
UnmappedMessage ==
  "Local catchup executed, but source database contains tablespace, that is not listed in the map"
TablespaceMessages ==
  {"Failed to get list of tablespaces",
   UnmappedMessage,
   "Tablespace directory path must be an absolute path: \"%s\"",
   "Target mapped tablespace directory is not empty in FULL catchup"}
TablespaceCheckRun ==
  /\ SystemIdCheckRun
  /\ pc \notin {"pf_ptrack", "pf_replica", "pf_tblspc"}
  /\ ~(PreflightFailed /\ errmsg \in SystemIdMessages \cup PtrackMessages \cup {ReplicaMessage})
TablespaceTarget == get_tablespace_mapping(opt.tablespace_mapping, SrcTablespacePath)
TablespaceUnmapped == strcmp(SrcTablespacePath, TablespaceTarget) = 0
TablespaceRejected == PreflightFailed /\ errmsg \in TablespaceMessages

(* C16: once the tablespace check has run for a source that reports a
   tablespace: with a local source an unmapped tablespace has ended the
   catchup with the unmapped-tablespace error; with a remote source it has
   not (a warning); the catchup has gone past the check exactly when the
   tablespace is mapped or the source is remote, the resolved target is an
   absolute path and, in FULL mode, the target directory is empty.  A
   rejection leaves the destination untouched, and a source without
   tablespaces is never rejected by this check.  A source whose tablespace
   query fails reports nothing and the catchup ends with that failure. *)
C16_TablespaceMapCompleteness ==
  TablespaceCheckRun =>
    IF ~env.tablespaces_res
    THEN PreflightFailed /\ errmsg = "Failed to get list of tablespaces"
    ELSE IF SourceTablespaces = <<>> THEN ~TablespaceRejected
    ELSE /\ (TablespaceUnmapped /\ ~env.remote) =>
               PreflightFailed /\ errmsg = UnmappedMessage
         /\ (TablespaceUnmapped /\ env.remote) => errmsg # UnmappedMessage
         /\ ~TablespaceRejected <=>
               /\ ~TablespaceUnmapped \/ env.remote
               /\ is_absolute_path(TablespaceTarget)
               /\ opt.backup_mode = BACKUP_MODE_FULL => env.tablespace_dir_empty
         /\ TablespaceRejected => DestinationUntouched /\ sent = <<>>

(* a remote source with an unmapped tablespace has passed preflight *)
C16_Witness ==
  /\ PreflightPassed
  /\ env.tablespaces_res /\ SourceTablespaces # <<>>
  /\ TablespaceUnmapped /\ env.remote


PtrackCheckRun ==
  /\ SystemIdCheckRun
  /\ pc # "pf_ptrack"
  /\ ~(PreflightFailed /\ errmsg \in SystemIdMessages)
PtrackReady ==
  /\ env.ptrack_version_num # 0
  /\ env.ptrack_version_num >= PtrackMinVersion
  /\ env.is_ptrack_enabled
PtrackLsnMessage ==
  "LSN from ptrack_control in source is greater than checkpoint LSN in destination"

(* C17: in PTRACK mode, once the ptrack check has run, the catchup has gone
   past it exactly when the extension is present, its version is at least
   2.0 and it is enabled; with a present, recent and disabled extension the
   catchup has ended with "Ptrack is disabled" and the destination untouched.
   In FULL and DELTA modes no ptrack error is ever raised. *)
C17_PtrackPrerequisites ==
  /\ (PtrackCheckRun /\ opt.backup_mode = BACKUP_MODE_DIFF_PTRACK) =>
        /\ PtrackReady <=> ~(PreflightFailed /\ errmsg \in PtrackMessages)
        /\ (env.ptrack_version_num >= PtrackMinVersion /\ ~env.is_ptrack_enabled) =>
              /\ PreflightFailed /\ errmsg = "Ptrack is disabled"
              /\ DestinationUntouched /\ sent = <<>> /\ stream = "off"
  /\ opt.backup_mode # BACKUP_MODE_DIFF_PTRACK =>
        errmsg \notin PtrackMessages \cup {PtrackLsnMessage}

(* a PTRACK catchup from a source with ptrack 2.0 installed and disabled was
   rejected *)
C17_Witness ==
  /\ PreflightFailed /\ errmsg = "Ptrack is disabled"
  /\ opt.backup_mode = BACKUP_MODE_DIFF_PTRACK
  /\ env.ptrack_version_num = PtrackMinVersion
  /\ ~dir_is_empty(dest_fs)


VanishedFiles == {f \in FileIds : write_size[f] = FILE_NOT_FOUND}

(* C18: a source file that vanished before its copy (write_size =
   FILE_NOT_FOUND) does not make the catchup fail: in particular the fsync of
   the destination files does not end with "Cannot sync file" because of an
   entry the pool could not copy.  The code syncs every non-directory entry
   of the source list, the vanished one included, so the statement fails
   when that entry has no file in the destination. *)
C18_VanishedFileTolerated ==
  VanishedFiles # {} => ~(pc = "error" /\ errmsg = "Cannot sync file")

(* the regular files of the source that the destination held at the start
   with the same content (same size, no page newer than the sync LSN), and
   that the pool has processed to the end *)
SkipCandidates ==
  {f \in FileIds : /\ S_ISREG(f)
                   /\ f \in env.src_tree /\ f \in env.dest_tree
                   /\ f \in env.unchanged /\ f \notin env.vanished
                   /\ copiers[f] # {} /\ write_size[f] # NotCopied}
IsRelMapper(f) == pg_strcasecmp_eq(FileName(f), RELMAPPER_FILENAME)

(* C19 as stated: in DELTA mode the pool writes nothing for any unchanged
   regular file present on both sides and marks it BYTES_INVALID.  Refuted
   by every file that is not a relation file: the entry goes to the copier
   of non-data files, which copies it whole (PG_VERSION, pg_filenode.map). *)
C19_DeltaSkipsEveryUnchangedFile ==
  opt.backup_mode = BACKUP_MODE_DIFF_DELTA =>
     \A f \in SkipCandidates : write_size[f] = BYTES_INVALID /\ f \notin touched

(* C19, amended: in DELTA mode the pool writes nothing for an unchanged
   relation file (is_datafile) present on both sides, and marks it
   BYTES_INVALID; an unchanged file that is not a relation file is copied
   whole although the pool found it in the destination list, except
   pg_filenode.map, which the reaper has dropped from that list and which
   is copied whole as a file the destination does not have.  A DELTA
   catchup that completes has copied the control file, also when nothing
   changed in the source. *)
C19_DeltaSkipLaw ==
  opt.backup_mode = BACKUP_MODE_DIFF_DELTA =>
     /\ \A f \in SkipCandidates :
           IF is_datafile(f)
           THEN write_size[f] = BYTES_INVALID /\ f \notin touched /\ exists_in_prev[f]
           ELSE /\ write_size[f] = BYTES_WRITTEN /\ f \in touched
                /\ exists_in_prev[f] <=> ~IsRelMapper(f)
     /\ pc = "done" => ControlCopied

(* a completed DELTA catchup with no source changes: the relation was
   skipped, PG_VERSION and pg_filenode.map were rewritten, the control file
   was copied *)
C19_Witness ==
  /\ opt.backup_mode = BACKUP_MODE_DIFF_DELTA
  /\ pc = "done"
  /\ env.unchanged = FileIds
  /\ ControlCopied
  /\ \E f \in SkipCandidates : is_datafile(f) /\ write_size[f] = BYTES_INVALID
  /\ \E f \in SkipCandidates : IsRelMapper(f) /\ write_size[f] = BYTES_WRITTEN
  /\ \E f \in SkipCandidates :
        ~is_datafile(f) /\ ~IsRelMapper(f) /\ write_size[f] = BYTES_WRITTEN

RestorePointCreated == "pg_create_restore_point" \in SeqToSet(sent)
NonExclusiveCapable == env.server_version >= NonExclusiveVersion
RestorePointBeforeStop ==
  \A a, b \in DOMAIN sent :
     sent[a] = "pg_create_restore_point" /\ sent[b] = "pg_stop_backup" => a < b

(* C20 as stated: when stop-backup is sent, no restore point was created
   for a replica source on a non-exclusive-capable server, and in every
   other case one was created exactly when the role is superuser.  Refuted
   by a primary on a 9.6+ server with a role that is not superuser: the
   code creates the restore point. *)
C20_RestorePointIffSuperuser ==
  StopSent =>
     IF opt.from_replica /\ NonExclusiveCapable
     THEN ~RestorePointCreated
     ELSE RestorePointCreated <=> env.is_superuser

(* C20, amended: a restore point is created, before stop-backup is sent,
   exactly when the source is not a replica and either the server is 9.6
   or later or the connected role is superuser. *)
C20_RestorePointRule ==
  /\ RestorePointBeforeStop
  /\ StopSent =>
       (RestorePointCreated <=>
          ~opt.from_replica /\ (NonExclusiveCapable \/ env.is_superuser))

(* stop-backup was sent to a 9.6+ primary after a restore point was created
   for a role that is not superuser *)
C20_Witness ==
  /\ StopSent
  /\ RestorePointCreated
  /\ ~opt.from_replica /\ NonExclusiveCapable /\ ~env.is_superuser

PoolJoined == "pool_joined" \in milestones
PoolReturned == pc \notin {"collect_info", "prepare", "run_threads", "join"} /\ PoolStarted

(* C21: pool failure semantics.  The foreground thread goes past the pool
   only after every worker has ended, failed ones included; the pool's
   result is true exactly when every worker ran to the end of its scan; and
   after a failed worker the catchup ends with "Data files transferring
   failed" without the control file copy, stop-backup, the backup label or
   the fsync. *)
C21_PoolFailureSemantics ==
  /\ PoolReturned =>
        /\ PoolJoined
        /\ \A w \in Workers : wpc[w] \in {"exited", "failed"}
        /\ \A w \in Workers : completed[w] <=> wpc[w] = "exited"
  /\ PoolReturned /\ PoolFailure =>
        /\ ~ControlCopied /\ ~StopSent /\ ~LabelWritten
        /\ "fsync" \notin milestones
        /\ pc \in {"copy_control", "report", "error"}
        /\ pc = "error" => errmsg = "Data files transferring failed"

(* two workers, one failed and one ran to completion, and the catchup has
   reported the failure *)
C21_Witness ==
  /\ pc = "error" /\ errmsg = "Data files transferring failed"
  /\ PoolJoined
  /\ \E w \in Workers : wpc[w] = "failed"
  /\ \E w \in Workers : wpc[w] = "exited" /\ completed[w]

(* the entries of the destination list as it was read, the entries the
   reaper has unlinked in the destination, and the reaper's criterion stated
   over sets *)
DestListed == {f \in env.dest_tree : ~IsExcludedFromScan(f)}
ReaperUnlinked == {f \in DestListed : dest_fs[f] = NoEnt}
ReaperRedundant(f) == IsRelMapper(f) \/ f \notin SeqToSet(source_filelist)
ReaperExamined == ReaperUnlinked \cup {dest_filelist[k] : k \in 1..(i - 1)}
ReaperPending == {dest_filelist[k] : k \in i..Len(dest_filelist)}

(* C22: reaper decision.  While the reaper runs, the entries are split into
   those examined (kept in the list before the cursor, or unlinked and
   removed) and those still ahead of the cursor, which all come later in
   the descending order: none is skipped or met twice.  An entry is unlinked
   and removed exactly when its path is absent from the source list or it
   is named pg_filenode.map; when the reaper has finished the list holds
   exactly the other entries.  A pg_filenode.map copied by the pool was not
   found in the destination list and is written in full.  With a remote
   source the statement fails: the redundant entry leaves the list but its
   file is not unlinked in the destination, the delete goes to the source
   host. *)
C22_ReaperDecision ==
  /\ pc = "reap" =>
        /\ ReaperUnlinked \cap SeqToSet(dest_filelist) = {}
        /\ ReaperUnlinked \cup SeqToSet(dest_filelist) = DestListed
        /\ \A f \in ReaperUnlinked : ReaperRedundant(f)
        /\ \A k \in 1..(i - 1) : ~ReaperRedundant(dest_filelist[k])
        /\ \A f \in ReaperExamined : \A g \in ReaperPending :
              strcmp(RelPath(f), RelPath(g)) > 0
  /\ pc = "prepare" /\ opt.backup_mode # BACKUP_MODE_FULL =>
        /\ SeqToSet(dest_filelist) = {f \in DestListed : ~ReaperRedundant(f)}
        /\ ReaperUnlinked = {f \in DestListed : ReaperRedundant(f)}
  /\ \A f \in FileIds :
        IsRelMapper(f) /\ write_size[f] \notin {NotCopied, FILE_NOT_FOUND} =>
           ~exists_in_prev[f] /\ write_size[f] = BYTES_WRITTEN

InReaper == opt.backup_mode # BACKUP_MODE_FULL /\ pc \in {"reap", "prepare"}

(* C23: reaper ordering.  The reaper walks the destination list in
   descending path order, and at every moment of its run each directory it
   has unlinked has no listed entry beneath it that is not unlinked yet:
   children go before their parents. *)
C23_ChildrenBeforeParents ==
  /\ pc = "reap" =>
        \A k, l \in DOMAIN dest_filelist :
           k < l => strcmp(RelPath(dest_filelist[k]), RelPath(dest_filelist[l])) > 0
  /\ InReaper =>
        \A d \in ReaperUnlinked : S_ISDIR(d) =>
           \A f \in DestListed : IsUnder(f, d) => f \in ReaperUnlinked

(* a redundant directory was unlinked after an entry beneath it, while the
   reaper still has entries to examine *)
C23_Witness ==
  /\ pc = "reap" /\ i <= Len(dest_filelist)
  /\ \E d \in ReaperUnlinked :
        S_ISDIR(d) /\ \E f \in ReaperUnlinked : IsUnder(f, d)

StopCompleted == stop_backup_result.lsn # InvalidXLogRecPtr
StopLsnRecorded == current.stop_lsn # InvalidXLogRecPtr
RecoveryTimeComputed == current.recovery_time # "unset"

(* C24 as stated: when the control file has been copied into the
   destination, stop-backup has completed, the stop LSN is recorded and the
   recovery time is computed.  Refuted: the control file is copied right
   after the pool, before stop-backup is even sent. *)
C24_PopulatedBeforeControlCopy ==
  ControlCopied => StopCompleted /\ StopLsnRecorded /\ RecoveryTimeComputed

(* C24, amended: the control file is copied before stop-backup is sent, with
   the stop LSN and the recovery time still unset at that moment; stop-backup
   has completed and the stop LSN is recorded before the backup label is
   written; the recovery time is computed after the label is written (by a
   build that writes one) and before the min-recovery-point adjustment and
   the fsync. *)
C24_PopulatedBeforeLabelAndSync ==
  /\ StopSent => ControlCopied
  /\ RecoveryTimeComputed => (PG_VERSION_NUM >= LabelFileVersion => LabelWritten)
  /\ ~StopSent => ~StopCompleted /\ ~StopLsnRecorded /\ ~RecoveryTimeComputed
  /\ LabelWritten => StopCompleted /\ StopLsnRecorded
  /\ pc \in {"min_recovery_point", "sync", "done"} =>
        StopCompleted /\ StopLsnRecorded /\ RecoveryTimeComputed
  /\ ("set_min_recovery_point" \in milestones \/ "fsync" \in milestones) =>
        RecoveryTimeComputed

(* a completed catchup from a replica: label written, min recovery point
   adjusted and tree synced, all after the operation state was populated *)
C24_Witness ==
  /\ pc = "done"
  /\ ControlCopied /\ LabelWritten
  /\ "set_min_recovery_point" \in milestones /\ "fsync" \in milestones
  /\ StopCompleted /\ StopLsnRecorded /\ RecoveryTimeComputed

WorkerEnded(w) == wpc[w] \in {"exited", "failed"}

(* C25: a worker that has ended, by running off the end of the list or by
   aborting on an interrupt or a copy error, has closed its remote-I/O
   channel.  The code calls fio_disconnect only at the end of the scan, so
   a worker that aborts after a request to a remote source leaves its
   channel open. *)
C25_ChannelClosedOnExit ==
  \A w \in Workers : WorkerEnded(w) => ~fio_connected[w]

Claimed(f) == claimers[f] # {}
PoolEntries == {k \in DOMAIN source_filelist : ~S_ISDIR(source_filelist[k])}

(* C26: largest-first claiming.  From the start of the pool on, whatever
   the number of workers and their interleaving, the claimed non-directory
   entries are a prefix of the non-directory entries of the source list,
   which is sorted by size, descending: no entry is claimed while an
   earlier one, or a strictly larger one, is still unclaimed. *)
C26_LargestFirstClaiming ==
  PoolStarted =>
     /\ \A k, l \in PoolEntries :
           k < l => env.src_size[source_filelist[k]] >= env.src_size[source_filelist[l]]
     /\ \A k, l \in PoolEntries :
           k < l /\ Claimed(source_filelist[l]) => Claimed(source_filelist[k])
     /\ \A k, l \in PoolEntries :
           Claimed(source_filelist[l]) /\ ~Claimed(source_filelist[k]) =>
              env.src_size[source_filelist[k]] <= env.src_size[source_filelist[l]]

(* two workers have each claimed an entry while a strictly smaller entry is
   still unclaimed *)
C26_Witness ==
  /\ PoolStarted /\ pc = "join"
  /\ \E f, g \in FileIds : f # g /\ claimers[f] = {1} /\ claimers[g] = {2}
  /\ \E k, l \in PoolEntries :
        /\ Claimed(source_filelist[k]) /\ ~Claimed(source_filelist[l])
        /\ env.src_size[source_filelist[k]] > env.src_size[source_filelist[l]]

UnexpectedType(f) == ~S_ISDIR(f) /\ ~S_ISREG(f)

(* C27: a claimed entry that is neither a directory nor a regular file is
   skipped: no copier is invoked for it and nothing is written for it.  The
   code warns ("Unexpected type ..., skipping") and then goes on to the
   copier all the same. *)
C27_UnexpectedTypeSkipped ==
  \A f \in FileIds :
     UnexpectedType(f) /\ Claimed(f) => copiers[f] = {} /\ write_size[f] = NotCopied

StartLsnMessage == "Current START LSN is lower than SYNC LSN"
Incremental == opt.backup_mode # BACKUP_MODE_FULL
LsnChecksPending ==
  pc \in {"collect_info", "pf_empty", "pf_postmaster", "pf_label", "pf_dbstate",
          "pf_sysid", "pf_ptrack", "pf_replica", "pf_tblspc", "pf_timeline",
          "start_backup", "list_dest", "ptrack_lsn", "check_lsn"}
LsnRejected ==
  /\ Incremental
  /\ \/ env.dest_redo_lsn > env.start_lsn
     \/ /\ opt.backup_mode = BACKUP_MODE_DIFF_PTRACK
        /\ env.ptrack_lsn = InvalidXLogRecPtr \/ env.ptrack_lsn > env.dest_redo_lsn

(* C28: LSN sanity after start-backup.  In DELTA and PTRACK modes, a
   destination redo LSN above the start LSN, or in PTRACK mode a source
   ptrack LSN that is invalid or above the destination redo LSN, ends the
   catchup before WAL streaming is started and before anything is created
   or removed in the destination; and the destination's redo parameters
   have been read before the first change to the destination. *)
C28_LsnSanity ==
  /\ LsnRejected =>
        /\ LsnChecksPending \/ pc = "error"
        /\ stream = "off"
        /\ DestinationUntouched
  /\ errmsg \in {StartLsnMessage, PtrackLsnMessage} =>
        /\ LsnRejected /\ StopSent = FALSE
        /\ errmsg = PtrackLsnMessage => opt.backup_mode = BACKUP_MODE_DIFF_PTRACK
  /\ Incremental /\ (~DestinationUntouched \/ stream # "off") =>
        dest_redo = [tli |-> env.dest_redo_tli, lsn |-> env.dest_redo_lsn]

(* a DELTA catchup rejected after start-backup because the destination is
   ahead of the source's start LSN, with nothing streamed or written *)
C28_Witness ==
  /\ pc = "error" /\ errmsg = StartLsnMessage
  /\ opt.backup_mode = BACKUP_MODE_DIFF_DELTA
  /\ "pg_start_backup" \in SeqToSet(sent)
  /\ dest_redo.lsn > current.start_lsn
  /\ stream = "off" /\ DestinationUntouched

ScannedEntries == {f \in env.src_tree : ~IsExcludedFromScan(f)}
PoolSucceeded == PoolJoined /\ \A w \in Workers : completed[w]

(* C29: transfer completeness.  When the pool is about to start, the claim
   flag of every entry of the source list is clear and the list holds the
   scanned entries except the control file; when the pool has reported
   success, every non-directory entry of the list has been claimed by
   exactly one worker and handed to a copier exactly once, by that worker,
   whatever the number of workers and their interleaving. *)
C29_TransferCompleteness ==
  /\ pc = "run_threads" =>
        /\ \A f \in SeqToSet(source_filelist) : ~lock[f] /\ claimers[f] = {}
        /\ SeqToSet(source_filelist) = ScannedEntries \ {source_pg_control_file}
        /\ source_pg_control_file = ControlFileId
  /\ PoolSucceeded =>
        /\ Len(source_filelist) = Cardinality(SeqToSet(source_filelist))
        /\ \A f \in SeqToSet(source_filelist) :
              IF S_ISDIR(f)
              THEN claimers[f] = {} /\ copiers[f] = {}
              ELSE /\ Cardinality(claimers[f]) = 1
                   /\ copiers[f] = claimers[f]
                   /\ write_size[f] # NotCopied

(* a pool of two workers reported success and each worker copied an entry *)
C29_Witness ==
  /\ PoolSucceeded /\ opt.num_threads >= 2
  /\ \E f, g \in SeqToSet(source_filelist) : copiers[f] = {1} /\ copiers[g] = {2}
  /\ \E f \in SeqToSet(source_filelist) : S_ISDIR(f)

TransferWindow == pc \in {"prepare", "run_threads", "join", "copy_control"}
TransferFailed == pc = "error" /\ errmsg = "Data files transferring failed"

(* C30: in DELTA and PTRACK modes, from the end of the reaper until the
   foreground thread copies the source control file, the destination holds
   no control file, and a catchup whose transfer failed or was interrupted
   leaves the destination without one.  With a remote source the reaper's
   delete request goes to the source host and the destination keeps its old
   control file. *)
C30_NoControlFileDuringTransfer ==
  Incremental /\ (TransferWindow \/ TransferFailed) => dest_fs[ControlFileId] = NoEnt

====
